---- MODULE Spec2Model ----
(***************************************************************************)
(* Model of the WebRTC peer-connection session core of SRS                 *)
(* (trunk/src/app/srs_app_rtc_conn.cpp): SrsSecurityTransport,              *)
(* SrsRtcPlayStream, SrsRtcPublishStream and SrsRtcConnection.             *)
(*                                                                         *)
(* One connection is modelled.  Every handler of the connection is one     *)
(* action; the helper operators carry the names of the C++ methods they    *)
(* are translated from and return the values the method leaves behind.     *)
(* The variable `last` records, for the handler that ran last, its         *)
(* arguments, its return value and the collaborator calls it made, in the  *)
(* order it made them.                                                     *)
(***************************************************************************)
EXTENDS Integers, Sequences, FiniteSets, TLC

VARIABLES
    now,               \* srs_get_system_time()
    config,            \* _srs_config, the vhost configuration
    state_,            \* SrsRtcConnection::state_
    req,               \* SrsRtcConnection::req (NULL before initialize)
    is_publisher_,     \* SrsRtcConnection::is_publisher_
    last_stun_time,    \* SrsRtcConnection::last_stun_time
    session_timeout,   \* SrsRtcConnection::session_timeout
    sendonly_skt,      \* SrsRtcConnection::sendonly_skt: NULL or the peer id it sends to
    peer_id_,          \* SrsRtcConnection::peer_id_
    id_sessions,       \* SrsRtcServer: the peer ids indexed to this connection
    handshake_done,    \* SrsSecurityTransport::handshake_done
    srtp_,             \* SrsSecurityTransport::srtp_, the SrsSRTP object
    publisher_,        \* SrsRtcConnection::publisher_
    player_,           \* SrsRtcConnection::player_
    stat_,             \* SrsRtcConnection::stat_
    source_,           \* the shared SrsRtcStream of the request
    tracks_,           \* the receive tracks' view: packets dispatched to a track's on_rtp
    encrypt,           \* SrsRtcConnection::encrypt
    twcc_id_,          \* SrsRtcConnection::twcc_id_
    twcc_controller,   \* SrsRtcConnection::twcc_controller, the next sequence number it allocates
    nn_simulate_player_nack_drop, \* SrsRtcConnection::nn_simulate_player_nack_drop
    nn,                \* how often each collaborator method was invoked so far
    wire,              \* environment: what the connection stamped and wrote to the socket so far
    last_binding_at,   \* environment: time the last binding request (or initialize) was handled
    last_binding_peer, \* environment: peer address of the last binding request handled
    last               \* the handler that ran last: arguments, result, calls

vars == <<now, config, state_, req, is_publisher_, last_stun_time, session_timeout,
          sendonly_skt, peer_id_, id_sessions, handshake_done, srtp_, publisher_,
          player_, stat_, source_, tracks_, encrypt, twcc_id_, twcc_controller,
          nn_simulate_player_nack_drop, nn, wire, last_binding_at, last_binding_peer,
          last>>

\* The fields of the connection that only the send path reads and writes.
sendVars == <<encrypt, twcc_controller, nn_simulate_player_nack_drop>>

NULL == "NULL"
srs_success == "srs_success"

Min(S) == CHOOSE x \in S : \A y \in S : x <= y

----------------------------------------------------------------------------
(* Bounds of the model.                                                    *)

MaxTime == 4
MaxSessionTimeout == 2
MaxRtp == 2
MaxSend == 3
MaxRtcp == 2
MaxDrop == 1
MaxNotify == 4
MaxSetActive == 2
MaxPayloads == 3
\* The wall clock, in milliseconds, when the clock of the model reads 0.
StartMs == 40000

Peers == {"10.0.0.1:5000", "10.0.0.2:6000", "10.0.0.3:7000"}

Range(s) == {s[i] : i \in DOMAIN s}

Count(m, calls) == Cardinality({i \in DOMAIN calls : calls[i] = m})

\* The collaborator methods whose invocations are counted per connection.
Counted == {"start_active_handshake", "srtp_initialize", "on_connection_established",
            "start_publish", "start_play", "report_timer_start", "trd_start",
            "send_packets", "on_rtcp", "notify", "set_track_active",
            "negotiate_publish_capability"}

AddCalls(n, calls) == [m \in Counted |-> n[m] + Count(m, calls)]

----------------------------------------------------------------------------
(* SrsRtcConnectionStateType and its single transition path.               *)

States == <<"INIT", "WAITING_STUN", "DOING_DTLS_HANDSHAKE", "ESTABLISHED">>

Rank(s) == CHOOSE i \in DOMAIN States : States[i] = s

----------------------------------------------------------------------------
(* SrsRtcServer: the id-to-session table, restricted to this connection.   *)

insert_into_id_sessions(table, peer_id) == table \cup {peer_id}

remove_id_sessions(table, peer_id) == table \ {peer_id}

----------------------------------------------------------------------------
(* SrsSRTP: usable only once initialize(recv_key, send_key) succeeded.     *)
(* A cipher is the plaintext wrapped under the SRTP kind that produced it; *)
(* an inbound cipher also says whether its authentication tag is valid.    *)

SrsSRTP_protect(srtp, kind, plaintext) ==
    IF ~srtp.initialized
    THEN [err |-> "ERROR_RTC_SRTP_PROTECT", output |-> <<>>]
    ELSE [err |-> srs_success,
          output |-> <<[srtp |-> kind, auth |-> TRUE, plain |-> plaintext]>>]

SrsSRTP_unprotect(srtp, kind, cipher) ==
    IF ~srtp.initialized \/ cipher.srtp # kind \/ ~cipher.auth
    THEN [err |-> "ERROR_RTC_SRTP_UNPROTECT", output |-> <<>>]
    ELSE [err |-> srs_success, output |-> <<cipher.plain>>]

----------------------------------------------------------------------------
(* SrsSecurityTransport.                                                   *)

\* What may go wrong inside the collaborators while a handshake completes.
HandshakeFailures == {"none", "get_srtp_key", "srtp_initialize", "tick", "timer_start",
                      "fetch_or_create", "on_publish", "hijacker", "trd_start"}

srtp_initialize(fail) ==
    IF fail = "get_srtp_key"
    THEN [err |-> "ERROR_RTC_SRTP_INIT", srtp_ |-> srtp_, calls |-> <<"get_srtp_key">>]
    ELSE IF fail = "srtp_initialize"
    THEN [err |-> "ERROR_RTC_SRTP_INIT", srtp_ |-> srtp_,
          calls |-> <<"get_srtp_key", "SrsSRTP::initialize">>]
    ELSE [err |-> srs_success, srtp_ |-> [srtp_ EXCEPT !.initialized = TRUE],
          calls |-> <<"get_srtp_key", "SrsSRTP::initialize">>]

\* SrsRtcPublishStream::start, on the connection's publisher_.
SrsRtcPublishStream_start(fail) ==
    LET same == [publisher_ |-> publisher_, player_ |-> player_, source_ |-> source_]
        sourced == [same EXCEPT !.publisher_.source = "source"]
        published == [sourced EXCEPT !.source_.publish_stream = "publisher_"]
    IN  IF publisher_.is_started
        THEN same @@ [err |-> srs_success, calls |-> <<>>]
        ELSE IF fail = "tick"
        THEN same @@ [err |-> "hourglass tick", calls |-> <<"report_timer_tick">>]
        ELSE IF fail = "timer_start"
        THEN same @@ [err |-> "start report_timer",
                      calls |-> <<"report_timer_tick", "report_timer_start">>]
        ELSE IF fail = "fetch_or_create"
        THEN same @@ [err |-> "create source",
                      calls |-> <<"report_timer_tick", "report_timer_start", "fetch_or_create">>]
        ELSE IF fail = "on_publish"
        THEN sourced @@ [err |-> "on publish",
                         calls |-> <<"report_timer_tick", "report_timer_start",
                                     "fetch_or_create", "on_publish">>]
        ELSE IF fail = "hijacker"
        THEN published @@ [err |-> "on start publish",
                           calls |-> <<"report_timer_tick", "report_timer_start",
                                       "fetch_or_create", "on_publish", "set_publish_stream",
                                       "on_start_publish">>]
        ELSE [published EXCEPT !.publisher_.is_started = TRUE]
             @@ [err |-> srs_success,
                 calls |-> <<"report_timer_tick", "report_timer_start", "fetch_or_create",
                             "on_publish", "set_publish_stream", "on_start_publish">>]

\* The tracks negotiated for the request and the payload types they carry.
Sdp == [audio_ssrc |-> 1001, video_ssrc |-> 1002, unknown_ssrc |-> 9,
        small_ssrc |-> 1003,
        opus_pt |-> 111, h264_pt |-> 102, twcc_ext_id |-> 3,
        play_audio_ssrc |-> 2001, play_video_ssrc |-> 2002, play_rtx_ssrc |-> 2003,
        nb_bytes |-> 100, srtp_auth_tag_len |-> 10]

\* SrsRtcPublishStream::get_audio_track, get_video_track: the receive track of the
\* SSRC, if any.
get_audio_track(ssrc) == IF ssrc = Sdp.audio_ssrc THEN "audio" ELSE NULL

get_video_track(ssrc) == IF ssrc = Sdp.video_ssrc THEN "video" ELSE NULL

\* SrsRtcPublishStream::request_keyframe, on the publish stream registered with the
\* source: keyframes are the receive tracks that recorded a request, nn_pli counts in
\* the statistic of the publisher's session.
SrsRtcPublishStream_request_keyframe(source, ssrc) ==
    [source EXCEPT !.keyframes = IF get_video_track(ssrc) # NULL THEN @ \cup {ssrc} ELSE @,
                   !.nn_pli = @ + 1]

\* srs_session_request_keyframe(source, ssrc), for every ssrc of a set.
RECURSIVE srs_session_request_keyframe(_, _)
srs_session_request_keyframe(source, ssrcs) ==
    IF source.publish_stream = NULL \/ ssrcs = {}
    THEN source
    ELSE LET ssrc == Min(ssrcs)
         IN  srs_session_request_keyframe(
                 SrsRtcPublishStream_request_keyframe(source, ssrc), ssrcs \ {ssrc})

\* The track-id group of the server: the two camera layers are merged into one
\* track, every other track id stands for itself.
get_merged_track_id(id) ==
    IF id \in {"camera_large", "camera_small"} THEN "camera" ELSE id

\* SrsStreamSwitchContext::is_track_preparing, of the video track published under key.
is_track_preparing(ctx, key) == key # 0 /\ ctx.prepare_ = key

\* A switch context that protects no track.
is_track_immutable_never(ctx, key) == FALSE

\* SrsStreamSwitchContext::is_track_immutable: the track is the live one of its
\* merge group.
is_track_immutable(ctx, key) == key # 0 /\ ctx.active_ = key

\* SrsStreamSwitchContext::active_it_in_future: a track of a merge group that is asked
\* to become active while it is not the live one is kept as the preparing track,
\* to be activated by its next key-frame.
active_it_in_future(ctx, key, track, cfg) ==
    IF get_merged_track_id(track.track_id) = track.track_id \/ ~cfg.active
       \/ ctx.active_ = key
    THEN [ctx |-> ctx, future |-> FALSE]
    ELSE [ctx |-> [ctx EXCEPT !.prepare_ = key], future |-> TRUE]

\* SrsRtcSendTrack::set_track_status on every track of keys.
set_track_status(tracks, keys, active) ==
    [k \in DOMAIN tracks |->
        IF k \in keys THEN [tracks[k] EXCEPT !.is_active = active] ELSE tracks[k]]

\* A switch that activates the preparing track and leaves the live one active.
try_switch_stream_keep(play, key, pkt) ==
    LET ctx == play.switch_context_
    IN  IF ctx.prepare_ # key \/ ~pkt.is_keyframe
        THEN play
        ELSE [play EXCEPT !.video_tracks_ = set_track_status(@, {key}, TRUE),
                          !.switch_context_ = [prepare_ |-> 0, active_ |-> key]]

\* A switch that pays no attention to the kind of the frame.
try_switch_stream_any(play, key, pkt) ==
    LET ctx == play.switch_context_
    IN  IF ctx.prepare_ # key
        THEN play
        ELSE [play EXCEPT !.video_tracks_ =
                              set_track_status(set_track_status(@, {ctx.active_}, FALSE),
                                               {key}, TRUE),
                          !.switch_context_ = [prepare_ |-> 0, active_ |-> key]]

\* SrsStreamSwitchContext::try_switch_stream: a key-frame on the preparing track
\* makes it the live track and deactivates the track that was live.
try_switch_stream(play, key, pkt) ==
    LET ctx == play.switch_context_
    IN  IF ctx.prepare_ # key \/ ~pkt.is_keyframe
        THEN play
        ELSE [play EXCEPT !.video_tracks_ =
                              set_track_status(set_track_status(@, {ctx.active_}, FALSE),
                                               {key}, TRUE),
                          !.switch_context_ = [prepare_ |-> 0, active_ |-> key]]

\* The loop of set_track_active over the video tracks for one entry of cfgs, over the
\* keys not yet visited, in the order of the map.
RECURSIVE set_video_track_active(_, _, _)
set_video_track_active(st, cfg, keys) ==
    IF keys = {}
    THEN st
    ELSE LET key == Min(keys)
             track == st.player_.video_tracks_[key]
             f == active_it_in_future(st.player_.switch_context_, key, track, cfg)
             next == IF track.track_id # cfg.label_
                     THEN st
                     ELSE IF f.future
                     THEN [st EXCEPT !.player_.switch_context_ = f.ctx,
                                     !.source_ = srs_session_request_keyframe(@, {key}),
                                     !.calls = @ \o <<"srs_session_request_keyframe">>]
                     ELSE [st EXCEPT !.player_.switch_context_ = f.ctx,
                                     !.player_.video_tracks_ =
                                         set_track_status(@, {key}, cfg.active)]
         IN  set_video_track_active(next, cfg, keys \ {key})

\* The loop of set_track_active over cfgs, from entry i on.
RECURSIVE set_track_active_from(_, _, _)
set_track_active_from(i, cfgs, st) ==
    IF i > Len(cfgs)
    THEN st
    ELSE LET cfg == cfgs[i]
             audios == {k \in DOMAIN st.player_.audio_tracks_ :
                           st.player_.audio_tracks_[k].track_id = cfg.label_}
             next == IF cfg.type_ = "audio"
                     THEN [st EXCEPT !.player_.audio_tracks_ =
                                         set_track_status(@, audios, cfg.active)]
                     ELSE IF cfg.type_ = "video"
                     THEN set_video_track_active(st, cfg, DOMAIN st.player_.video_tracks_)
                     ELSE st
         IN  set_track_active_from(i + 1, cfgs, next)

\* A set_track_active that activates every audio track an entry names.
set_track_active_listed(play, source, cfgs) ==
    LET labels == {cfgs[i].label_ : i \in {j \in DOMAIN cfgs : cfgs[j].type_ = "audio"}}
        r == set_track_active_from(1, [i \in DOMAIN cfgs |->
                                          IF cfgs[i].type_ = "audio"
                                          THEN [cfgs[i] EXCEPT !.active = TRUE]
                                          ELSE cfgs[i]],
                 [player_ |-> [play EXCEPT
                      !.video_tracks_ = set_track_status(@,
                          {k \in DOMAIN @ : ~is_track_immutable(play.switch_context_, k)},
                          FALSE),
                      !.audio_tracks_ = set_track_status(@, DOMAIN @, FALSE)],
                  source_ |-> source, calls |-> <<>>])
    IN  r

\* SrsRtcPlayStream::set_track_active
set_track_active(play, source, cfgs) ==
    set_track_active_from(1, cfgs,
        [player_ |-> [play EXCEPT
             !.video_tracks_ = set_track_status(@,
                 {k \in DOMAIN @ : ~is_track_immutable(play.switch_context_, k)}, FALSE),
             !.audio_tracks_ = set_track_status(@, DOMAIN @, FALSE)],
         source_ |-> source, calls |-> <<>>])

\* SrsRtcConnection::set_play_track_active
set_play_track_active(cfgs) ==
    IF player_.null
    THEN [player_ |-> player_, source_ |-> source_, calls |-> <<>>,
          err |-> "ERROR_RTC_NO_PLAYER"]
    ELSE set_track_active(player_, source_, cfgs)
         @@ [err |-> srs_success]

\* SrsRtcPlayStream::start, on the connection's player_.
SrsRtcPlayStream_start(fail) ==
    LET same == [publisher_ |-> publisher_, player_ |-> player_, source_ |-> source_]
    IN  IF player_.is_started
        THEN same @@ [err |-> srs_success, calls |-> <<>>]
        ELSE IF fail = "trd_start"
        THEN same @@ [err |-> "rtc_sender", calls |-> <<"trd_start">>]
        ELSE IF fail = "hijacker"
        THEN same @@ [err |-> "on start play", calls |-> <<"trd_start", "on_start_play">>]
        ELSE [same EXCEPT !.player_.is_started = TRUE,
                          !.source_ = srs_session_request_keyframe(source_,
                                            {k \in DOMAIN player_.video_tracks_ :
                                                is_track_preparing(
                                                    player_.switch_context_, k)})]
             @@ [err |-> srs_success, calls |-> <<"trd_start", "on_start_play">>]

start_publish(fail) ==
    LET r == SrsRtcPublishStream_start(fail)
    IN  [r EXCEPT !.calls = <<"start_publish">> \o @]

start_play(fail) ==
    LET r == SrsRtcPlayStream_start(fail)
    IN  [r EXCEPT !.calls = <<"start_play">> \o @]

on_connection_established(fail) ==
    IF is_publisher_ THEN start_publish(fail) ELSE start_play(fail)

\* on_dtls_handshake_done that marks the handshake done only once the streams started.
on_dtls_handshake_done_marks_late(fail) ==
    LET same == [publisher_ |-> publisher_, player_ |-> player_, source_ |-> source_]
    IN  IF handshake_done
        THEN same @@ [err |-> srs_success, handshake_done |-> handshake_done,
                      srtp_ |-> srtp_, calls |-> <<>>]
        ELSE LET s == srtp_initialize(fail)
             IN  IF s.err # srs_success
                 THEN same @@ [err |-> s.err, handshake_done |-> FALSE, srtp_ |-> s.srtp_,
                               calls |-> <<"srtp_initialize">> \o s.calls]
                 ELSE LET c == on_connection_established(fail)
                      IN  [c EXCEPT !.calls = <<"srtp_initialize">> \o s.calls
                                              \o <<"on_connection_established">> \o @]
                          @@ [handshake_done |-> c.err = srs_success, srtp_ |-> s.srtp_]

\* on_dtls_handshake_done without the early return for a repeated completion.
on_dtls_handshake_done_every_time(fail) ==
    LET same == [publisher_ |-> publisher_, player_ |-> player_, source_ |-> source_]
        s == srtp_initialize(fail)
    IN  IF s.err # srs_success
        THEN same @@ [err |-> s.err, handshake_done |-> TRUE, srtp_ |-> s.srtp_,
                      calls |-> <<"srtp_initialize">> \o s.calls]
        ELSE LET c == on_connection_established(fail)
             IN  [c EXCEPT !.calls = <<"srtp_initialize">> \o s.calls
                                     \o <<"on_connection_established">> \o @]
                 @@ [handshake_done |-> TRUE, srtp_ |-> s.srtp_]

on_dtls_handshake_done(fail) ==
    LET same == [publisher_ |-> publisher_, player_ |-> player_, source_ |-> source_]
    IN  IF handshake_done
        THEN same @@ [err |-> srs_success, handshake_done |-> handshake_done,
                      srtp_ |-> srtp_, calls |-> <<>>]
        ELSE LET s == srtp_initialize(fail)
             IN  IF s.err # srs_success
                 THEN same @@ [err |-> s.err, handshake_done |-> TRUE, srtp_ |-> s.srtp_,
                               calls |-> <<"srtp_initialize">> \o s.calls]
                 ELSE LET c == on_connection_established(fail)
                      IN  [c EXCEPT !.calls = <<"srtp_initialize">> \o s.calls
                                              \o <<"on_connection_established">> \o @]
                          @@ [handshake_done |-> TRUE, srtp_ |-> s.srtp_]

protect_rtp(plaintext) ==
    IF srtp_.null
    THEN [err |-> "ERROR_RTC_SRTP_PROTECT", output |-> <<>>]
    ELSE SrsSRTP_protect(srtp_, "rtp", plaintext)

protect_rtcp(plaintext) ==
    IF srtp_.null
    THEN [err |-> "ERROR_RTC_SRTP_PROTECT", output |-> <<>>]
    ELSE SrsSRTP_protect(srtp_, "rtcp", plaintext)

protect_rtp2(rtp_hdr) ==
    IF srtp_.null
    THEN [err |-> "ERROR_RTC_SRTP_PROTECT", output |-> <<>>]
    ELSE SrsSRTP_protect(srtp_, "rtp", rtp_hdr)

unprotect_rtp(cipher) ==
    IF srtp_.null
    THEN [err |-> "ERROR_RTC_SRTP_UNPROTECT", output |-> <<>>]
    ELSE SrsSRTP_unprotect(srtp_, "rtp", cipher)

unprotect_rtcp(cipher) ==
    IF srtp_.null
    THEN [err |-> "ERROR_RTC_SRTP_UNPROTECT", output |-> <<>>]
    ELSE SrsSRTP_unprotect(srtp_, "rtcp", cipher)

----------------------------------------------------------------------------
(* SrsRtcConnection: STUN.                                                 *)

StunPackets == [binding_request : BOOLEAN, ice_controlled : BOOLEAN]

\* What may go wrong inside the collaborators while a binding request is answered.
StunFailures == {"none", "encode", "sendto", "start_active_handshake"}

is_stun_timeout == last_stun_time + session_timeout < now

\* update_sendonly_socket that forgets to remove the old address from the index.
update_sendonly_socket_keeps_old(skt) ==
    [sendonly_skt |-> skt, peer_id_ |-> skt,
     id_sessions |-> insert_into_id_sessions(id_sessions, skt),
     calls |-> <<"copy_sendonly", "insert_into_id_sessions">>]

update_sendonly_socket(skt) ==
    LET old_peer_id == IF sendonly_skt # NULL THEN sendonly_skt ELSE ""
        copy == skt
        inserted == insert_into_id_sessions(id_sessions, copy)
    IN  [sendonly_skt |-> copy,
         peer_id_ |-> copy,
         id_sessions |-> IF old_peer_id # ""
                         THEN remove_id_sessions(inserted, old_peer_id)
                         ELSE inserted,
         calls |-> <<"copy_sendonly", "insert_into_id_sessions">>
                   \o (IF old_peer_id # "" THEN <<"remove_id_sessions">> ELSE <<>>)]

\* on_binding_request that starts the handshake whatever the state is.
on_binding_request_any_state(r, fail) ==
    IF config.rtc_stun_strict_check /\ r.ice_controlled
    THEN [err |-> "ERROR_RTC_STUN", state_ |-> state_, calls |-> <<>>]
    ELSE IF fail = "encode"
    THEN [err |-> "stun binding response encode failed", state_ |-> state_,
          calls |-> <<"encode">>]
    ELSE IF fail = "sendto"
    THEN [err |-> "stun binding response send failed", state_ |-> state_,
          calls |-> <<"encode", "sendto">>]
    ELSE [err |-> IF fail = "start_active_handshake"
                  THEN "fail to dtls handshake" ELSE srs_success,
          state_ |-> "DOING_DTLS_HANDSHAKE",
          calls |-> <<"encode", "sendto", "BindingResponse", "start_active_handshake">>]

\* on_binding_request without the ICE role check.
on_binding_request_no_role_check(r, fail) ==
    IF fail = "encode"
    THEN [err |-> "stun binding response encode failed", state_ |-> state_,
          calls |-> <<"encode">>]
    ELSE IF fail = "sendto"
    THEN [err |-> "stun binding response send failed", state_ |-> state_,
          calls |-> <<"encode", "sendto">>]
    ELSE IF state_ = "WAITING_STUN"
    THEN [err |-> IF fail = "start_active_handshake"
                  THEN "fail to dtls handshake" ELSE srs_success,
          state_ |-> "DOING_DTLS_HANDSHAKE",
          calls |-> <<"encode", "sendto", "BindingResponse", "start_active_handshake">>]
    ELSE [err |-> srs_success, state_ |-> state_,
          calls |-> <<"encode", "sendto", "BindingResponse">>]

on_binding_request(r, fail) ==
    IF config.rtc_stun_strict_check /\ r.ice_controlled
    THEN [err |-> "ERROR_RTC_STUN", state_ |-> state_, calls |-> <<>>]
    ELSE IF fail = "encode"
    THEN [err |-> "stun binding response encode failed", state_ |-> state_,
          calls |-> <<"encode">>]
    ELSE IF fail = "sendto"
    THEN [err |-> "stun binding response send failed", state_ |-> state_,
          calls |-> <<"encode", "sendto">>]
    ELSE IF state_ = "WAITING_STUN"
    THEN [err |-> IF fail = "start_active_handshake"
                  THEN "fail to dtls handshake" ELSE srs_success,
          state_ |-> "DOING_DTLS_HANDSHAKE",
          calls |-> <<"encode", "sendto", "BindingResponse", "start_active_handshake">>]
    ELSE [err |-> srs_success, state_ |-> state_,
          calls |-> <<"encode", "sendto", "BindingResponse">>]

\* on_stun that refreshes last_stun_time only when the binding request succeeded.
on_stun_refresh_on_success(skt, r, fail) ==
    LET same == [sendonly_skt |-> sendonly_skt, peer_id_ |-> peer_id_,
                 id_sessions |-> id_sessions, calls |-> <<>>]
    IN  IF ~r.binding_request
        THEN same @@ [err |-> srs_success, last_stun_time |-> last_stun_time,
                      state_ |-> state_]
        ELSE LET u == IF sendonly_skt = NULL \/ sendonly_skt # skt
                      THEN update_sendonly_socket(skt) ELSE same
                 b == on_binding_request(r, fail)
             IN  [u EXCEPT !.calls = @ \o b.calls]
                 @@ [err |-> b.err,
                     last_stun_time |-> IF b.err = srs_success THEN now ELSE last_stun_time,
                     state_ |-> b.state_]

on_stun(skt, r, fail) ==
    LET same == [sendonly_skt |-> sendonly_skt, peer_id_ |-> peer_id_,
                 id_sessions |-> id_sessions, calls |-> <<>>]
    IN  IF ~r.binding_request
        THEN same @@ [err |-> srs_success, last_stun_time |-> last_stun_time,
                      state_ |-> state_]
        ELSE LET u == IF sendonly_skt = NULL \/ sendonly_skt # skt
                      THEN update_sendonly_socket(skt) ELSE same
                 b == on_binding_request(r, fail)
             IN  [u EXCEPT !.calls = @ \o b.calls]
                 @@ [err |-> b.err, last_stun_time |-> now, state_ |-> b.state_]

set_state(state) == state

----------------------------------------------------------------------------
(* SrsRtcPublishStream: inbound RTP.                                       *)

\* A well-formed, authentic RTP packet on the video track, and the datagrams that
\* deviate from it: sn is the TWCC sequence number carried in the header extension
\* (-1: no extension), decodable says how far SrsRtpPacket2::decode gets.
BaseRtp == [pt |-> Sdp.h264_pt, ssrc |-> Sdp.video_ssrc, sn |-> 7, decodable |-> "all",
            seq |-> 10]

RtpPlains ==
    {BaseRtp,
     [BaseRtp EXCEPT !.pt = Sdp.opus_pt, !.ssrc = Sdp.audio_ssrc],
     [BaseRtp EXCEPT !.ssrc = Sdp.unknown_ssrc],
     [BaseRtp EXCEPT !.sn = -1],
     [BaseRtp EXCEPT !.decodable = "none"],
     [BaseRtp EXCEPT !.decodable = "header"]}

RtpDatagrams == [srtp : {"rtp"}, auth : BOOLEAN, plain : RtpPlains]

\* What may go wrong inside the collaborators while the packet is dispatched.
RtpFailures == {"none", "recv_packet", "track_on_rtp", "on_rtp_packet"}

\* SrsRtpHeader::decode of the datagram's clear header, into a default header.
DefaultHeader == [decoded |-> FALSE, pt |-> 0, sn |-> -1]

DecodeHeader(d) == [decoded |-> TRUE, pt |-> d.plain.pt, sn |-> d.plain.sn]

\* SrsRtpRingBuffer of a receive track: what it has counted of the packets that
\* reached the track.
NewRtpQueue == [nn_received |-> 0, first_seq |-> 0, extended_highest_sequence |-> 0]

\* SrsRtcRecvTrack::on_rtp, on the queue of the track: the first packet gives the
\* first sequence number, a newer packet the highest (the samples stay clear of the
\* 16-bit wrap).
SrsRtcRecvTrack_on_rtp(q, seq) ==
    IF q.nn_received = 0
    THEN [nn_received |-> 1, first_seq |-> seq, extended_highest_sequence |-> seq]
    ELSE [q EXCEPT !.nn_received = @ + 1,
                   !.extended_highest_sequence = IF seq > @ THEN seq ELSE @]

on_twcc(pub, st, sn, fail) ==
    [publisher_ |-> IF fail = "recv_packet" THEN pub
                    ELSE [pub EXCEPT !.twcc_recv = @ \cup {sn}],
     stat_ |-> [st EXCEPT !.nn_in_twcc = @ + 1],
     err |-> IF fail = "recv_packet" THEN "twcc recv_packet" ELSE srs_success]

\* SrsRtcPublishStream::on_rtp that goes on with a datagram unprotect_rtp refused.
SrsRtcPublishStream_on_rtp_unchecked(d, fail) ==
    LET st1 == [stat_ EXCEPT !.nn_in_rtp = @ + 1]
        base == [publisher_ |-> publisher_, stat_ |-> st1, tracks_ |-> tracks_,
                 source_ |-> source_]
        decode_first == publisher_.pt_to_drop_ # 0 /\ publisher_.twcc_id_ # 0
        h == IF decode_first THEN DecodeHeader(d) ELSE DefaultHeader
        has_sn == publisher_.twcc_id_ # 0 /\ h.decoded /\ h.sn # -1
        t == IF has_sn THEN on_twcc(publisher_, st1, h.sn, fail)
             ELSE [publisher_ |-> publisher_, stat_ |-> st1, err |-> srs_success]
        c0 == IF has_sn THEN <<"on_twcc">> ELSE <<>>
        after == [base EXCEPT !.publisher_ = t.publisher_, !.stat_ = t.stat_]
        u == unprotect_rtp(d)
        ssrc == d.plain.ssrc
        track == IF get_audio_track(ssrc) # NULL THEN get_audio_track(ssrc)
                 ELSE get_video_track(ssrc)
    IN  IF publisher_.nn_simulate_nack_drop # 0
        THEN [base EXCEPT !.publisher_.nn_simulate_nack_drop = @ - 1]
             @@ [err |-> srs_success, calls |-> <<"simulate_drop_packet">>]
        ELSE IF decode_first /\ d.plain.decodable = "none"
        THEN base @@ [err |-> "twcc decode header", calls |-> <<>>]
        ELSE IF t.err # srs_success
        THEN after @@ [err |-> t.err, calls |-> c0]
        ELSE IF publisher_.pt_to_drop_ # 0 /\ publisher_.pt_to_drop_ = h.pt
        THEN after @@ [err |-> srs_success, calls |-> c0]
        ELSE IF d.plain.decodable # "all"
        THEN after @@ [err |-> "decode rtp packet", calls |-> c0 \o <<"unprotect_rtp">>]
        ELSE IF track = NULL
        THEN after @@ [err |-> "ERROR_RTC_RTP", calls |-> c0 \o <<"unprotect_rtp">>]
        ELSE IF fail = "track_on_rtp"
        THEN after @@ [err |-> "on track", calls |-> c0 \o <<"unprotect_rtp", "track_on_rtp">>]
        ELSE [after EXCEPT !.tracks_[track] = @ + 1, !.source_.nn_rtp = @ + 1,
                           !.publisher_.rtp_queue[track] =
                               SrsRtcRecvTrack_on_rtp(@, d.plain.seq)]
             @@ [err |-> IF fail = "on_rtp_packet" THEN "on rtp packet" ELSE srs_success,
                 calls |-> c0 \o <<"unprotect_rtp", "track_on_rtp", "on_rtp_packet">>]

SrsRtcPublishStream_on_rtp(d, fail) ==
    LET st1 == [stat_ EXCEPT !.nn_in_rtp = @ + 1]
        base == [publisher_ |-> publisher_, stat_ |-> st1, tracks_ |-> tracks_,
                 source_ |-> source_]
        decode_first == publisher_.pt_to_drop_ # 0 /\ publisher_.twcc_id_ # 0
        h == IF decode_first THEN DecodeHeader(d) ELSE DefaultHeader
        has_sn == publisher_.twcc_id_ # 0 /\ h.decoded /\ h.sn # -1
        t == IF has_sn THEN on_twcc(publisher_, st1, h.sn, fail)
             ELSE [publisher_ |-> publisher_, stat_ |-> st1, err |-> srs_success]
        c0 == IF has_sn THEN <<"on_twcc">> ELSE <<>>
        after == [base EXCEPT !.publisher_ = t.publisher_, !.stat_ = t.stat_]
        u == unprotect_rtp(d)
        ssrc == d.plain.ssrc
        track == IF get_audio_track(ssrc) # NULL THEN get_audio_track(ssrc)
                 ELSE get_video_track(ssrc)
    IN  IF publisher_.nn_simulate_nack_drop # 0
        THEN [base EXCEPT !.publisher_.nn_simulate_nack_drop = @ - 1]
             @@ [err |-> srs_success, calls |-> <<"simulate_drop_packet">>]
        ELSE IF decode_first /\ d.plain.decodable = "none"
        THEN base @@ [err |-> "twcc decode header", calls |-> <<>>]
        ELSE IF t.err # srs_success
        THEN after @@ [err |-> t.err, calls |-> c0]
        ELSE IF publisher_.pt_to_drop_ # 0 /\ publisher_.pt_to_drop_ = h.pt
        THEN after @@ [err |-> srs_success, calls |-> c0]
        ELSE IF u.err # srs_success
        THEN after @@ [err |-> u.err, calls |-> c0 \o <<"unprotect_rtp">>]
        ELSE IF d.plain.decodable # "all"
        THEN after @@ [err |-> "decode rtp packet", calls |-> c0 \o <<"unprotect_rtp">>]
        ELSE IF track = NULL
        THEN after @@ [err |-> "ERROR_RTC_RTP", calls |-> c0 \o <<"unprotect_rtp">>]
        ELSE IF fail = "track_on_rtp"
        THEN after @@ [err |-> "on track", calls |-> c0 \o <<"unprotect_rtp", "track_on_rtp">>]
        ELSE [after EXCEPT !.tracks_[track] = @ + 1, !.source_.nn_rtp = @ + 1,
                           !.publisher_.rtp_queue[track] =
                               SrsRtcRecvTrack_on_rtp(@, d.plain.seq)]
             @@ [err |-> IF fail = "on_rtp_packet" THEN "on rtp packet" ELSE srs_success,
                 calls |-> c0 \o <<"unprotect_rtp", "track_on_rtp", "on_rtp_packet">>]

\* SrsRtcConnection::on_rtp
on_rtp(d, fail) ==
    IF publisher_.null
    THEN [publisher_ |-> publisher_, stat_ |-> stat_, tracks_ |-> tracks_,
          source_ |-> source_, err |-> "ERROR_RTC_RTCP", calls |-> <<>>]
    ELSE SrsRtcPublishStream_on_rtp(d, fail)

----------------------------------------------------------------------------
(* SrsRtcConnection: creation.                                             *)

Configs == [rtc_stun_strict_check : BOOLEAN,
            rtc_stun_timeout : 1..MaxSessionTimeout,
            rtc_nack_enabled : BOOLEAN,
            rtc_drop_for_pt : {0, Sdp.h264_pt},
            rtc_gcc_enabled : BOOLEAN,
            SRS_CXX14 : BOOLEAN,
            int_overflow_wraps : {TRUE}]

\* The TWCC extension id of the negotiated video track description (-1: none).
StreamDescs == [twcc_id : {-1, Sdp.twcc_ext_id}]

NewPublishStream == [null |-> TRUE, is_started |-> FALSE, source |-> NULL,
                     nack_enabled_ |-> FALSE, pt_to_drop_ |-> 0, twcc_id_ |-> 0,
                     nn_simulate_nack_drop |-> 0, twcc_recv |-> {},
                     last_twcc_feedback_time_ |-> 0, twcc_fb_count_ |-> 0,
                     send_report_time |-> [audio |-> 0, video |-> 0],
                     send_report_systime |-> [audio |-> 0, video |-> 0],
                     rtp_queue |-> [audio |-> NewRtpQueue, video |-> NewRtpQueue],
                     rtt |-> [audio |-> 0, video |-> 0]]

\* A send track: its description (ssrc, rtx ssrc, active) and the packets its
\* retransmit ring still holds.
NewSendTrack(ssrc, rtx_ssrc) ==
    [ssrc |-> ssrc, rtx_ssrc |-> rtx_ssrc, is_active |-> TRUE, ring |-> {},
     track_id |-> ""]

\* The tracks a player subscribes to, keyed by the SSRC they are published under.
SubRelations ==
    [audio |-> (Sdp.audio_ssrc :> NewSendTrack(Sdp.play_audio_ssrc, 0)),
     video |-> (Sdp.video_ssrc :> NewSendTrack(Sdp.play_video_ssrc, Sdp.play_rtx_ssrc))]

\* A subscription to an audio track and to the two layers of a camera, which share
\* the SSRC of the merged track; large_active is the active flag that the
\* description of the large layer carries.
MergedRelations(large_active) ==
    [audio |-> (Sdp.audio_ssrc :>
                    [NewSendTrack(Sdp.play_audio_ssrc, 0) EXCEPT !.track_id = "audio"]),
     video |-> (Sdp.video_ssrc :>
                    [NewSendTrack(Sdp.play_video_ssrc, 0)
                         EXCEPT !.track_id = "camera_large", !.is_active = large_active])
               @@ (Sdp.small_ssrc :>
                    [NewSendTrack(Sdp.play_video_ssrc, 0)
                         EXCEPT !.track_id = "camera_small", !.is_active = FALSE])]

NoTracks == [ssrc \in {} |-> NewSendTrack(0, 0)]

\* SrsStreamSwitchContext: the video track that waits for a key-frame and the video
\* track that is live, by the SSRC they are published under (0: none).
NewStreamSwitchContext == [prepare_ |-> 0, active_ |-> 0]

NewPlayStream == [null |-> TRUE, is_started |-> FALSE, nack_enabled_ |-> FALSE,
                  trd |-> [interrupted |-> FALSE, terminated |-> FALSE], pkts |-> <<>>,
                  switch_context_ |-> NewStreamSwitchContext, audio_tracks_ |-> NoTracks, video_tracks_ |-> NoTracks,
                  info |-> [nn_bytes |-> 0, nn_rtp_bytes |-> 0, nn_rtp_pkts |-> 0]]

\* SrsRtcPublishStream::initialize
SrsRtcPublishStream_initialize(pub, stream_desc) ==
    [pub EXCEPT !.twcc_id_ = IF stream_desc.twcc_id # -1 THEN stream_desc.twcc_id ELSE @,
                !.nack_enabled_ = config.rtc_nack_enabled,
                !.pt_to_drop_ = config.rtc_drop_for_pt]

\* SrsRtcPlayStream::initialize
SrsRtcPlayStream_initialize(play, sub_relations) ==
    [play EXCEPT !.audio_tracks_ = sub_relations.audio,
                 !.video_tracks_ = sub_relations.video,
                 !.nack_enabled_ = config.rtc_nack_enabled]

create_publisher(stream_desc) ==
    IF ~publisher_.null
    THEN [publisher_ |-> publisher_, stat_ |-> stat_]
    ELSE [publisher_ |-> SrsRtcPublishStream_initialize(
                             [NewPublishStream EXCEPT !.null = FALSE], stream_desc),
          stat_ |-> [stat_ EXCEPT !.nn_publishers = @ + 1]]

\* SrsRtcTrackDescription::get_rtp_extension_id(kTWCCExt) of the video track.
get_rtp_extension_id(stream_desc) ==
    IF stream_desc.twcc_id = -1 THEN 0 ELSE stream_desc.twcc_id

create_player(stream_desc, sub_relations) ==
    IF ~player_.null
    THEN [player_ |-> player_, stat_ |-> stat_, twcc_id_ |-> twcc_id_]
    ELSE [player_ |-> SrsRtcPlayStream_initialize([NewPlayStream EXCEPT !.null = FALSE],
                                                  sub_relations),
          stat_ |-> [stat_ EXCEPT !.nn_subscribers = @ + 1],
          twcc_id_ |-> IF config.rtc_gcc_enabled
                       THEN get_rtp_extension_id(stream_desc) ELSE twcc_id_]

\* SrsRtcConnection::initialize
initialize(is_publisher) ==
    [req |-> "req", is_publisher_ |-> is_publisher,
     session_timeout |-> config.rtc_stun_timeout, last_stun_time |-> now]

----------------------------------------------------------------------------
(* The send path: the send tracks, SrsRtcPlayStream::send_packets and       *)
(* SrsRtcConnection::do_send_packets.                                      *)
(*                                                                         *)
(* The operators of the send path and of RTCP take and return a record st  *)
(* of the fields they may change, because they run in loops: the streams,  *)
(* the statistics, the TWCC controller, the error returned so far, the     *)
(* collaborator calls made and, in out, the sequence numbers looked up,    *)
(* the packets handed to do_send_packets and the datagrams written to the  *)
(* socket.                                                                 *)

Cur == [player_ |-> player_, publisher_ |-> publisher_, stat_ |-> stat_,
        source_ |-> source_, twcc_controller |-> twcc_controller,
        nn_simulate_player_nack_drop |-> nn_simulate_player_nack_drop,
        err |-> srs_success, calls |-> <<>>,
        out |-> [lookups |-> <<>>, resend |-> <<>>, stamped |-> <<>>, sent |-> <<>>,
                 visited |-> <<>>, freed |-> <<>>, rtt |-> <<>>, blocks |-> <<>>]]

Fail(st, e, calls) == [st EXCEPT !.err = e, !.calls = @ \o calls]

uint16(n) == n % 65536

\* SrsRtcTrackDescription::has_ssrc: the primary or the rtx SSRC.
has_ssrc(track, ssrc) ==
    ssrc = track.ssrc \/ (track.rtx_ssrc # 0 /\ ssrc = track.rtx_ssrc)

\* SrsRtcSendTrack::fetch_rtp_packet: the cached packet, if the ring still holds it.
fetch_rtp_packet(track, seq) ==
    LET cached == {pkt \in track.ring : pkt.seq = seq}
    IN  IF cached = {} THEN <<>> ELSE <<CHOOSE pkt \in cached : TRUE>>

\* An allocator that hands out the same number again.
allocate_twcc_sn_again(ctl) == [sn |-> ctl.next_sn, ctl |-> ctl]

\* An allocator that counts past sixteen bits.
allocate_twcc_sn_wide(ctl) == [sn |-> ctl.next_sn, ctl |-> [ctl EXCEPT !.next_sn = @ + 1]]

\* SrsRtcTwccController::allocate_twcc_sn
allocate_twcc_sn(ctl) ==
    [sn |-> ctl.next_sn, ctl |-> [ctl EXCEPT !.next_sn = uint16(@ + 1)]]

\* What may go wrong inside do_send_packets, and for which packet of the vector.
NoSendFailure == [what |-> "none", at |-> 0]

SendFailures ==
    {NoSendFailure}
    \cup [what : {"encode", "on_pre_send_packet", "protect_rtp2", "on_sent_packet"},
          at : 1..2]

\* The loop of do_send_packets, from packet i of pkts on.
RECURSIVE do_send_packets_from(_, _, _, _)
do_send_packets_from(i, pkts, st, fail) ==
    IF i > Len(pkts)
    THEN st
    ELSE LET pkt == pkts[i]
             stamp == config.SRS_CXX14 /\ twcc_id_ # 0
             a == IF stamp THEN allocate_twcc_sn(st.twcc_controller)
                  ELSE [sn |-> 0, ctl |-> st.twcc_controller]
             st1 == [st EXCEPT !.twcc_controller = a.ctl,
                               !.out.stamped = @ \o (IF stamp THEN <<a.sn>> ELSE <<>>),
                               !.calls = @ \o (IF stamp THEN <<"allocate_twcc_sn">> ELSE <<>>)]
             encoded == [ssrc |-> pkt.ssrc, seq |-> pkt.seq, nb_bytes |-> pkt.nb_bytes,
                         twcc_sn |-> IF stamp THEN a.sn ELSE -1]
             p == protect_rtp2(encoded)
             datagram == IF encrypt THEN p.output[1]
                         ELSE [srtp |-> "none", auth |-> FALSE, plain |-> encoded]
             iov_len == IF encrypt THEN pkt.nb_bytes + Sdp.srtp_auth_tag_len
                        ELSE pkt.nb_bytes
             c2 == <<"encode">> \o (IF stamp THEN <<"on_pre_send_packet">> ELSE <<>>)
                   \o (IF encrypt THEN <<"protect_rtp2">> ELSE <<>>)
             st2 == [st1 EXCEPT !.player_.info.nn_rtp_bytes = @ + iov_len,
                                !.player_.info.nn_rtp_pkts = @ + 1,
                                !.calls = @ \o c2]
             fails(what) == fail.what = what /\ fail.at = i
             st3 == [st2 EXCEPT !.out.sent = Append(@, datagram),
                                !.calls = @ \o <<"sendto">>
                                          \o (IF stamp THEN <<"on_sent_packet">> ELSE <<>>)]
         IN  IF fails("encode")
             THEN Fail(st1, "encode packet", <<"encode">>)
             ELSE IF stamp /\ fails("on_pre_send_packet")
             THEN Fail(st1, "store sending rtp pkt in adaptor",
                       <<"encode", "on_pre_send_packet">>)
             ELSE IF encrypt /\ p.err # srs_success
             THEN Fail(st1, p.err, c2)
             ELSE IF encrypt /\ fails("protect_rtp2")
             THEN Fail(st1, "ERROR_RTC_SRTP_PROTECT", c2)
             ELSE IF st.nn_simulate_player_nack_drop # 0
             THEN do_send_packets_from(i + 1, pkts,
                      [st2 EXCEPT !.nn_simulate_player_nack_drop = @ - 1,
                                  !.calls = @ \o <<"simulate_player_drop_packet">>], fail)
             ELSE IF stamp /\ fails("on_sent_packet")
             THEN Fail(st3, "set sent event of rtp pkt in twcc", <<>>)
             ELSE do_send_packets_from(i + 1, pkts, st3, fail)

\* SrsRtcConnection::do_send_packets(pkts, info), info being the play stream's.
do_send_packets(pkts, st, fail) ==
    do_send_packets_from(1, pkts,
        [st EXCEPT !.out.resend = @ \o pkts, !.calls = @ \o <<"do_send_packets">>], fail)

\* SrsRtcSendTrack::on_rtp: an active track stamps the packet with its SSRC, caches it
\* in the retransmit ring and sends it; an inactive track drops it.
SrsRtcSendTrack_on_rtp(kind, key, pkt, st, fail) ==
    LET track == st.player_[kind][key]
        stamped == [pkt EXCEPT !.ssrc = track.ssrc]
    IN  IF ~track.is_active
        THEN st
        ELSE do_send_packets(<<stamped>>,
                 [st EXCEPT !.player_[kind][key].ring =
                                {c \in @ : c.seq # pkt.seq} \cup {stamped},
                            !.calls = @ \o <<"track_on_rtp">>], fail)

\* What operator[] of a track map inserts under a key the map does not have: a null
\* pointer.
NullTrack == [NewSendTrack(0, 0) EXCEPT !.track_id = NULL, !.is_active = FALSE]

\* The outcomes of a member call through a null track pointer, which the language
\* leaves undefined: the process is stopped by the signal, or the call returns and
\* has touched nothing.
SIGSEGV == "SIGSEGV"

NullCallReturns == [what |-> "null_call_returns", at |-> 0]

\* The loop of send_packets, from packet i of pkts on.  The packet's kind selects the
\* map that is indexed by its SSRC; the map may not be the one that has the SSRC.
RECURSIVE send_packets_from(_, _, _, _)
send_packets_from(i, pkts, st, fail) ==
    IF i > Len(pkts)
    THEN st
    ELSE LET pkt == pkts[i]
             known == pkt.ssrc \in DOMAIN st.player_.audio_tracks_
                      \/ pkt.ssrc \in DOMAIN st.player_.video_tracks_
             kind == IF pkt.is_audio THEN "audio_tracks_" ELSE "video_tracks_"
             sent == SrsRtcSendTrack_on_rtp(kind, pkt.ssrc, pkt,
                         IF pkt.is_audio THEN st
                         ELSE [st EXCEPT !.player_ = try_switch_stream(@, pkt.ssrc, pkt),
                                         !.calls = @ \o <<"try_switch_stream">>], fail)
             inserted == [st EXCEPT !.player_[kind] = @ @@ (pkt.ssrc :> NullTrack),
                                    !.calls = @ \o <<"null_track_on_rtp">>]
         IN  IF ~known
             THEN send_packets_from(i + 1, pkts, st, fail)
             ELSE IF \/ pkt.ssrc \notin DOMAIN st.player_[kind]
                     \/ st.player_[kind][pkt.ssrc] = NullTrack
             THEN IF fail = NullCallReturns
                  THEN send_packets_from(i + 1, pkts, inserted, fail)
                  ELSE [inserted EXCEPT !.err = SIGSEGV]
             ELSE IF sent.err # srs_success
             THEN sent
             ELSE send_packets_from(i + 1, pkts, sent, fail)

\* SrsRtcPlayStream::send_packets; the session's transport_ is created by the
\* constructor and never NULL.
send_packets(pkts, st, fail) ==
    send_packets_from(1, pkts, [st EXCEPT !.calls = @ \o <<"send_packets">>], fail)

----------------------------------------------------------------------------
(* Inbound RTCP.  A compound datagram is its length nb_data and its        *)
(* sub-packets; of a sub-packet the model keeps the payload type, the      *)
(* five-bit field of the first byte (fmt or report count), the length in   *)
(* bytes its header announces, and the fields the handlers read.           *)

RtcpType == [kSR |-> 200, kRR |-> 201, kSDES |-> 202, kBye |-> 203, kApp |-> 204,
             kRtpFb |-> 205, kPsFb |-> 206, kXR |-> 207]

PsFbType == [kPLI |-> 1, kSLI |-> 2, kRPSI |-> 3, kAFB |-> 15]

\* SrsRtcPlayStream::nack_fetch: the audio tracks, then the video tracks, in the order
\* of their keys; the first track that has the SSRC answers.
nack_fetch(pkts, play, ssrc, seq) ==
    LET audios == {k \in DOMAIN play.audio_tracks_ : has_ssrc(play.audio_tracks_[k], ssrc)}
        videos == {k \in DOMAIN play.video_tracks_ : has_ssrc(play.video_tracks_[k], ssrc)}
    IN  IF audios # {}
        THEN pkts \o fetch_rtp_packet(play.audio_tracks_[Min(audios)], uint16(seq))
        ELSE IF videos # {}
        THEN pkts \o fetch_rtp_packet(play.video_tracks_[Min(videos)], uint16(seq))
        ELSE pkts

\* The loop over blp of SrsRtcPlayStream::on_rtcp_feedback, from counter i and mask on;
\* acc holds the packets fetched and the sequence numbers looked up so far.
RECURSIVE nack_fetch_blp(_, _, _, _, _, _)
nack_fetch_blp(i, mask, play, p, blp, acc) ==
    IF ~(i < 16 /\ blp # 0)
    THEN acc
    ELSE LET set == mask # 0 /\ (blp \div mask) % 2 = 1
             loss_seq == p.pid + i
             next == IF set
                     THEN [pkts |-> nack_fetch(acc.pkts, play, p.ssrc, loss_seq),
                           lookups |-> Append(acc.lookups, uint16(loss_seq))]
                     ELSE acc
         IN  nack_fetch_blp(i + 1, uint16(mask * 2), play, p, blp, next)

\* SrsRtcConnection::on_rtcp_feedback: TWCC feedback for the congestion controller.
on_rtcp_feedback(st, p) ==
    IF ~config.SRS_CXX14 \/ twcc_id_ = 0
    THEN st
    ELSE [st EXCEPT !.calls = @ \o <<"twcc_on_received_rtcp", "get_network_status">>]

\* SrsRtcPlayStream::on_rtcp_feedback
\* A player that retransmits whether or not NACK is enabled.
SrsRtcPlayStream_on_rtcp_feedback_always(st, p, fail) ==
    LET first == [pkts |-> nack_fetch(<<>>, st.player_, p.ssrc, p.pid),
                  lookups |-> <<p.pid>>]
        all == nack_fetch_blp(1, 1, st.player_, p, p.blp, first)
        sent == do_send_packets(all.pkts, [st EXCEPT !.out.lookups = @ \o all.lookups], fail)
    IN  IF p.length < 12
        THEN Fail(st, "ERROR_RTC_RTCP_CHECK", <<>>)
        ELSE IF p.fmt = 15
        THEN on_rtcp_feedback(st, p)
        ELSE IF sent.err # srs_success
        THEN sent
        ELSE [sent EXCEPT !.stat_.nn_nack = @ + 1]

SrsRtcPlayStream_on_rtcp_feedback(st, p, fail) ==
    IF p.length < 12
    THEN Fail(st, "ERROR_RTC_RTCP_CHECK", <<>>)
    ELSE IF p.fmt = 15
    THEN on_rtcp_feedback(st, p)
    ELSE LET first == [pkts |-> nack_fetch(<<>>, st.player_, p.ssrc, p.pid),
                       lookups |-> <<p.pid>>]
             all == nack_fetch_blp(1, 1, st.player_, p, p.blp, first)
             RECURSIVE nn_bytes(_)
             nn_bytes(pkts) ==
                 IF pkts = <<>> THEN 0 ELSE Head(pkts).nb_bytes + nn_bytes(Tail(pkts))
             sent == do_send_packets(all.pkts,
                         [st EXCEPT !.out.lookups = @ \o all.lookups,
                                    !.player_.info.nn_bytes = @ + nn_bytes(all.pkts)], fail)
         IN  IF ~st.player_.nack_enabled_
             THEN [st EXCEPT !.out.lookups = @ \o first.lookups]
             ELSE IF sent.err # srs_success
             THEN sent
             ELSE [sent EXCEPT !.stat_.nn_nack = @ + 1]

\* A player that asks for the key frame under its own SSRC.
get_video_publish_ssrc_same(play, play_ssrc) == play_ssrc

\* SrsRtcPlayStream::get_video_publish_ssrc
get_video_publish_ssrc(play, play_ssrc) ==
    LET videos == {k \in DOMAIN play.video_tracks_ : has_ssrc(play.video_tracks_[k], play_ssrc)}
    IN  IF videos = {} THEN 0 ELSE Min(videos)

\* SrsRtcPlayStream::on_rtcp_ps_feedback
SrsRtcPlayStream_on_rtcp_ps_feedback(st, p) ==
    LET ssrc == get_video_publish_ssrc(st.player_, p.ssrc)
    IN  IF p.length < 12
        THEN Fail(st, "ERROR_RTC_RTCP_CHECK", <<>>)
        ELSE IF p.fmt = PsFbType.kPLI
        THEN IF st.source_.publish_stream # NULL /\ ssrc # 0
             THEN [st EXCEPT !.source_ = SrsRtcPublishStream_request_keyframe(@, ssrc),
                             !.stat_.nn_pli = @ + 1,
                             !.calls = @ \o <<"request_keyframe">>]
             ELSE [st EXCEPT !.stat_.nn_pli = @ + 1]
        ELSE IF p.fmt \in {PsFbType.kSLI, PsFbType.kRPSI, PsFbType.kAFB}
        THEN st
        ELSE Fail(st, "ERROR_RTC_RTCP", <<>>)

\* The bytes a sequence of sub-packets takes: (length + 1) * 4 of each header.
RECURSIVE Bytes(_)
Bytes(pkts) == IF pkts = <<>> THEN 0 ELSE Head(pkts).length + Bytes(Tail(pkts))

\* The sub-packet whose header the bytes at offset ph of the datagram are.
PacketAt(data, ph) ==
    data.pkts[CHOOSE k \in 1..Len(data.pkts) : Bytes(SubSeq(data.pkts, 1, k - 1)) = ph]

\* The loop of SrsRtcPlayStream::on_rtcp, with ph bytes walked and nb_left bytes left.
RECURSIVE SrsRtcPlayStream_on_rtcp_from(_, _, _, _, _)
SrsRtcPlayStream_on_rtcp_from(ph, nb_left, data, st0, fail) ==
    IF nb_left = 0
    THEN st0
    ELSE LET p == PacketAt(data, ph)
             st == [st0 EXCEPT !.out.visited = @ \o <<[at |-> ph, pt |-> p.pt]>>]
             handled ==
                 IF p.pt = RtcpType.kSR THEN [st EXCEPT !.stat_.nn_sr = @ + 1]
                 ELSE IF p.pt = RtcpType.kRR THEN [st EXCEPT !.stat_.nn_rr = @ + 1]
                 ELSE IF p.pt = RtcpType.kRtpFb
                 THEN SrsRtcPlayStream_on_rtcp_feedback(st, p, fail)
                 ELSE IF p.pt = RtcpType.kPsFb
                 THEN SrsRtcPlayStream_on_rtcp_ps_feedback(st, p)
                 ELSE IF p.pt = RtcpType.kXR THEN [st EXCEPT !.stat_.nn_xr = @ + 1]
                 ELSE st
             known == p.pt \in {RtcpType[k] : k \in DOMAIN RtcpType}
         IN  IF p.length > data.nb_data
             THEN Fail(st0, "ERROR_RTC_RTCP", <<>>)
             ELSE IF ~known
             THEN Fail(st, "ERROR_RTC_RTCP_CHECK", <<>>)
             ELSE IF handled.err # srs_success
             THEN handled
             ELSE SrsRtcPlayStream_on_rtcp_from(ph + p.length, nb_left - p.length, data,
                      [handled EXCEPT !.calls = @ \o <<ToString(p.pt)>>], fail)

\* A player that looks at the first sub-packet only.
SrsRtcPlayStream_on_rtcp_first(data, st, fail) ==
    SrsRtcPlayStream_on_rtcp_from(0, IF data.nb_data = 0 THEN 0 ELSE PacketAt(data, 0).length,
                                  data, st, fail)

SrsRtcPlayStream_on_rtcp(data, st, fail) ==
    SrsRtcPlayStream_on_rtcp_from(0, data.nb_data, data, st, fail)

\* SrsRtcPublishStream::update_send_report_time: the video track, else the audio track.
update_send_report_time(pub, ssrc, ntp) ==
    IF get_video_track(ssrc) # NULL
    THEN [pub EXCEPT !.send_report_time.video = ntp, !.send_report_systime.video = now]
    ELSE IF get_audio_track(ssrc) # NULL
    THEN [pub EXCEPT !.send_report_time.audio = ntp, !.send_report_systime.audio = now]
    ELSE pub

\* SrsRtcPublishStream::on_rtcp_sr; p.fmt is the report count.
SrsRtcPublishStream_on_rtcp_sr(st, p) ==
    IF p.length < 28 \/ p.length # p.fmt * 24 + 28
    THEN Fail(st, "ERROR_RTC_RTCP_CHECK", <<>>)
    ELSE [st EXCEPT !.publisher_ = update_send_report_time(@, p.ssrc, p.ntp)]

\* SrsRtcPublishStream::on_rtcp_rr; p.fmt is the report count.
SrsRtcPublishStream_on_rtcp_rr(st, p) ==
    IF p.length < 8 \/ p.length # p.fmt * 24 + 8
    THEN Fail(st, "ERROR_RTC_RTCP_CHECK", <<>>)
    ELSE st

\* SrsRtcPublishStream::update_rtt: the video track, else the audio track.
update_rtt(pub, ssrc, rtt) ==
    IF get_video_track(ssrc) # NULL
    THEN [pub EXCEPT !.rtt.video = rtt]
    ELSE IF get_audio_track(ssrc) # NULL
    THEN [pub EXCEPT !.rtt.audio = rtt]
    ELSE pub

\* The 32-bit word at byte pos of an XR sub-packet, whose header is 8 bytes.
XrWord(p, pos) == p.words[(pos - 8) \div 4 + 1]

\* The compact NTP time of on_rtcp_xr: the low 16 bits of the seconds and the high
\* 16 bits of the fraction of the wall clock, a tick of the clock being 50 ms.
compact_ntp_of(ms) ==
    ((ms \div 1000) % 65536) * 65536 + ((ms % 1000) * 65536) \div 1000

compact_ntp == compact_ntp_of(StartMs + now * 50)

int16(n) == IF n % 65536 < 32768 THEN n % 65536 ELSE (n % 65536) - 65536

\* The rtt of on_rtcp_xr, ((rtt_ntp * 1000) >> 16) + ((rtt_ntp >> 16) * 1000) in
\* 32-bit int.  The bits 16..31 of the product are those of the exact quotient
\* floor(rtt_ntp * 1000 / 65536); when the product overflows int the behaviour is
\* undefined: a build that wraps keeps these 16 bits, signed, a build that holds the
\* product in a wider register keeps the exact quotient.
dlrr_rtt(rtt_ntp) ==
    LET seconds == rtt_ntp \div 65536
        exact == seconds * 1000 + ((rtt_ntp % 65536) * 1000) \div 65536
        shifted == IF -32768 <= exact /\ exact < 32768 THEN exact
                   ELSE IF config.int_overflow_wraps THEN int16(exact)
                   ELSE exact
    IN  shifted + seconds * 1000

\* The sub-blocks of a DLRR report block in on_rtcp_xr, with the stream at byte pos.
\* The words of the samples are below 2^30, so the difference is within int.
RECURSIVE on_rtcp_xr_dlrr(_, _, _, _, _)
on_rtcp_xr_dlrr(i, block_length, pos, p, st) ==
    IF i >= block_length
    THEN [st |-> st, pos |-> pos]
    ELSE LET ssrc == XrWord(p, pos)
             lrr == XrWord(p, pos + 4)
             dlrr == XrWord(p, pos + 8)
             rtt_ntp == compact_ntp - lrr - dlrr
             rtt == dlrr_rtt(rtt_ntp)
         IN  on_rtcp_xr_dlrr(i + 12, block_length, pos + 12, p,
                 [st EXCEPT !.publisher_ = update_rtt(@, ssrc, rtt),
                            !.calls = @ \o <<"update_rtt">>,
                            !.out.rtt = @ \o <<[ssrc |-> ssrc, rtt_ntp |-> rtt_ntp,
                                                rtt |-> rtt]>>])

\* The loop of SrsRtcPublishStream::on_rtcp_xr over the report blocks, with the stream
\* at byte pos: a block of another type than 5 is not skipped, its body is read as
\* the next block header.
RECURSIVE on_rtcp_xr_from(_, _, _)
on_rtcp_xr_from(pos, p, st) ==
    IF ~(pos + 4 < uint16(p.length))
    THEN st
    ELSE LET bt == XrWord(p, pos) \div 16777216
             block_length == uint16(((XrWord(p, pos) % 65536) + 1) * 4)
         IN  IF pos + 4 + block_length - 4 > p.length
             THEN Fail(st, "ERROR_RTC_RTCP_CHECK", <<>>)
             ELSE IF bt = 5
             THEN LET blk == on_rtcp_xr_dlrr(4, block_length, pos + 4, p,
                                             [st EXCEPT !.out.blocks = @ \o <<pos>>])
                  IN  on_rtcp_xr_from(blk.pos, p, blk.st)
             ELSE on_rtcp_xr_from(pos + 4, p, [st EXCEPT !.out.blocks = @ \o <<pos>>])

\* SrsRtcPublishStream::on_rtcp_xr
SrsRtcPublishStream_on_rtcp_xr(st, p) ==
    IF uint16(p.length) # p.length
    THEN Fail(st, "ERROR_RTC_RTCP_CHECK", <<>>)
    ELSE on_rtcp_xr_from(8, p, st)

\* SrsRtcPublishStream::on_rtcp_feedback
SrsRtcPublishStream_on_rtcp_feedback(st, p) == st

\* SrsRtcPublishStream::on_rtcp_ps_feedback
SrsRtcPublishStream_on_rtcp_ps_feedback(st, p) ==
    IF p.length < 12
    THEN Fail(st, "ERROR_RTC_RTCP_CHECK", <<>>)
    ELSE IF p.fmt \in {PsFbType.kPLI, PsFbType.kSLI, PsFbType.kRPSI, PsFbType.kAFB}
    THEN st
    ELSE Fail(st, "ERROR_RTC_RTCP", <<>>)

\* The loop of SrsRtcPublishStream::on_rtcp, with ph bytes walked and nb_left bytes
\* left.
RECURSIVE SrsRtcPublishStream_on_rtcp_from(_, _, _, _)
SrsRtcPublishStream_on_rtcp_from(ph, nb_left, data, st0) ==
    IF nb_left = 0
    THEN st0
    ELSE LET p == PacketAt(data, ph)
             st == [st0 EXCEPT !.out.visited = @ \o <<[at |-> ph, pt |-> p.pt]>>]
             handled ==
                 IF p.pt = RtcpType.kSR THEN SrsRtcPublishStream_on_rtcp_sr(st, p)
                 ELSE IF p.pt = RtcpType.kRR THEN SrsRtcPublishStream_on_rtcp_rr(st, p)
                 ELSE IF p.pt = RtcpType.kRtpFb
                 THEN SrsRtcPublishStream_on_rtcp_feedback(st, p)
                 ELSE IF p.pt = RtcpType.kPsFb
                 THEN SrsRtcPublishStream_on_rtcp_ps_feedback(st, p)
                 ELSE IF p.pt = RtcpType.kXR THEN SrsRtcPublishStream_on_rtcp_xr(st, p)
                 ELSE st
             known == p.pt \in {RtcpType[k] : k \in DOMAIN RtcpType}
         IN  IF p.length > data.nb_data
             THEN Fail(st0, "ERROR_RTC_RTCP", <<>>)
             ELSE IF ~known
             THEN Fail(st, "ERROR_RTC_RTCP_CHECK", <<>>)
             ELSE IF handled.err # srs_success
             THEN handled
             ELSE SrsRtcPublishStream_on_rtcp_from(ph + p.length, nb_left - p.length, data,
                      [handled EXCEPT !.calls = @ \o <<ToString(p.pt)>>])

SrsRtcPublishStream_on_rtcp(data, st) ==
    SrsRtcPublishStream_on_rtcp_from(0, data.nb_data, data, st)

\* A connection that undoes what the earlier sub-packets did when a later one fails.
on_rtcp_all_or_nothing(d, fail) ==
    LET u == unprotect_rtcp(d)
        st == [Cur EXCEPT !.calls = <<"on_rtcp", "unprotect_rtcp">>]
        walked == IF ~player_.null
                  THEN SrsRtcPlayStream_on_rtcp(u.output[1], st, fail)
                  ELSE IF ~publisher_.null
                  THEN SrsRtcPublishStream_on_rtcp(u.output[1], st)
                  ELSE st
    IN  IF u.err # srs_success
        THEN Fail(st, u.err, <<>>)
        ELSE IF walked.err # srs_success
        THEN [st EXCEPT !.err = walked.err, !.out = walked.out]
        ELSE walked

\* SrsRtcConnection::on_rtcp
on_rtcp(d, fail) ==
    LET u == unprotect_rtcp(d)
        st == [Cur EXCEPT !.calls = <<"on_rtcp", "unprotect_rtcp">>]
    IN  IF u.err # srs_success
        THEN Fail(st, u.err, <<>>)
        ELSE IF ~player_.null
        THEN SrsRtcPlayStream_on_rtcp(u.output[1], st, fail)
        ELSE IF ~publisher_.null
        THEN SrsRtcPublishStream_on_rtcp(u.output[1], st)
        ELSE st

\* Sample sub-packets: a receiver report with no report block, and what deviates.
BaseRtcp == [pt |-> RtcpType.kRR, fmt |-> 0, length |-> 8, ssrc |-> 0, pid |-> 0,
             blp |-> 0, ntp |-> 0, words |-> <<>>]

Rtcp ==
    [rr |-> BaseRtcp,
     rr_short |-> [BaseRtcp EXCEPT !.fmt = 1],
     sr |-> [BaseRtcp EXCEPT !.pt = RtcpType.kSR, !.length = 28, !.ssrc = Sdp.video_ssrc,
                             !.ntp = 5],
     sdes |-> [BaseRtcp EXCEPT !.pt = RtcpType.kSDES],
     xr |-> [BaseRtcp EXCEPT !.pt = RtcpType.kXR],
     fir |-> [BaseRtcp EXCEPT !.pt = 192],
     pli |-> [BaseRtcp EXCEPT !.pt = RtcpType.kPsFb, !.fmt = PsFbType.kPLI, !.length = 12,
                              !.ssrc = Sdp.play_video_ssrc],
     twcc |-> [BaseRtcp EXCEPT !.pt = RtcpType.kRtpFb, !.fmt = 15, !.length = 20],
     nack |-> [BaseRtcp EXCEPT !.pt = RtcpType.kRtpFb, !.fmt = 1, !.length = 16,
                               !.ssrc = Sdp.play_video_ssrc]]


\* A well-formed compound datagram: the sub-packets fill it exactly.
Compound(pkts) == [nb_data |-> Bytes(pkts), pkts |-> pkts]

\* A datagram whose only sub-packet announces more bytes than the datagram has.
Oversize == [nb_data |-> 8, pkts |-> <<[BaseRtcp EXCEPT !.length = 12]>>]

RtcpPlains ==
    {Compound(<<Rtcp[k]>>) : k \in {"rr_short", "sr", "twcc", "nack"}}
    \cup {Compound(<<Rtcp.rr, Rtcp.pli>>), Compound(<<Rtcp.sdes, Rtcp.xr>>),
          Compound(<<Rtcp.fir, Rtcp.sr>>), Oversize}

\* The sequence numbers of the media sent to the player, around the 16-bit wrap, and
\* the NACKs that ask for them.
SendSeqs == {65534, 65535, 0, 14}

SendBatches ==
    {<<[ssrc |-> Sdp.video_ssrc, seq |-> seq, is_audio |-> FALSE, nb_bytes |-> Sdp.nb_bytes,
       is_keyframe |-> FALSE]>>
        : seq \in SendSeqs}

Nack(ssrc, pid, blp) == [Rtcp.nack EXCEPT !.ssrc = ssrc, !.pid = pid, !.blp = blp]

Nacks == {Nack(Sdp.play_video_ssrc, 65534, blp) : blp \in {0, 3, 32768, 32771}}
         \cup {Nack(Sdp.play_rtx_ssrc, 65535, 1), Nack(Sdp.unknown_ssrc, 65534, 3)}

NackPlains == {Compound(<<n>>) : n \in Nacks}
              \cup {Compound(<<Rtcp.rr, Nack(Sdp.play_video_ssrc, 65534, 3)>>)}

RtcpDatagrams(plains) == [srtp : {"rtcp"}, auth : BOOLEAN, plain : plains]

\* The datagrams of the peer, and one of them with a bad authentication tag.
Authentic(plains) ==
    {d \in RtcpDatagrams(plains) : d.auth}
    \cup {[srtp |-> "rtcp", auth |-> FALSE, plain |-> Compound(<<Rtcp.rr>>)]}

----------------------------------------------------------------------------
(* The state after construction.                                           *)

\* The TWCC controller chooses the sequence number it allocates first.
InitOf(configs, first_sns) ==
    /\ now = 1
    /\ config \in configs
    /\ state_ = "INIT"
    /\ req = NULL
    /\ is_publisher_ = FALSE
    /\ last_stun_time = 0
    /\ session_timeout = 0
    /\ sendonly_skt = NULL
    /\ peer_id_ = ""
    /\ id_sessions = {}
    /\ handshake_done = FALSE
    /\ srtp_ = [null |-> FALSE, initialized |-> FALSE]
    /\ publisher_ = NewPublishStream
    /\ player_ = NewPlayStream
    /\ stat_ = [nn_publishers |-> 0, nn_subscribers |-> 0, nn_in_rtp |-> 0, nn_in_twcc |-> 0,
                nn_sr |-> 0, nn_rr |-> 0, nn_xr |-> 0, nn_pli |-> 0, nn_nack |-> 0,
                nn_out_rtp |-> 0]
    /\ encrypt = TRUE
    /\ twcc_id_ = 0
    /\ twcc_controller \in [next_sn : first_sns]
    /\ nn_simulate_player_nack_drop = 0
    /\ source_ = [publish_stream |-> NULL, keyframes |-> {}, nn_pli |-> 0, nn_rtp |-> 0]
    /\ tracks_ = [audio |-> 0, video |-> 0]
    /\ nn = [m \in Counted |-> 0]
    /\ wire = [stamped |-> <<>>, rtp |-> <<>>, feedback |-> <<>>]
    /\ last_binding_at = 0
    /\ last_binding_peer = NULL
    /\ last = [op |-> "new", arg |-> <<>>, err |-> srs_success, calls |-> <<>>,
               out |-> <<>>]

InitWith(configs) == InitOf(configs, {0})

----------------------------------------------------------------------------
(* The handlers.                                                           *)

\* The server creates the session: add_publisher or add_player, then initialize.
CreateSessionOf(relations) ==
    \E is_publisher \in BOOLEAN, stream_desc \in StreamDescs, sub_relations \in relations :
        /\ req = NULL
        /\ LET c == IF is_publisher
                    THEN create_publisher(stream_desc)
                         @@ [player_ |-> player_, twcc_id_ |-> twcc_id_]
                    ELSE create_player(stream_desc, sub_relations)
                         @@ [publisher_ |-> publisher_]
               i == initialize(is_publisher)
           IN  /\ publisher_' = c.publisher_
               /\ player_' = c.player_
               /\ stat_' = c.stat_
               /\ twcc_id_' = c.twcc_id_
               /\ req' = i.req
               /\ is_publisher_' = i.is_publisher_
               /\ session_timeout' = i.session_timeout
               /\ last_stun_time' = i.last_stun_time
        /\ last_binding_at' = now
        /\ last' = [op |-> "initialize",
                    arg |-> [is_publisher |-> is_publisher, stream_desc |-> stream_desc],
                    err |-> srs_success, calls |-> <<>>, out |-> <<>>]
        /\ UNCHANGED <<now, config, state_, sendonly_skt, peer_id_, id_sessions,
                       handshake_done, srtp_, source_, tracks_, nn, last_binding_peer,
                       sendVars, wire>>

CreateSession == CreateSessionOf({SubRelations})

\* The server indexes the connection by its ICE username and lets it wait for STUN.
SetupSession ==
    /\ req # NULL
    /\ state_ = "INIT"
    /\ state_' = set_state("WAITING_STUN")
    /\ last' = [op |-> "set_state", arg |-> "WAITING_STUN", err |-> srs_success,
                calls |-> <<>>, out |-> <<>>]
    /\ UNCHANGED <<now, config, req, is_publisher_, last_stun_time, session_timeout,
                   sendonly_skt, peer_id_, id_sessions, handshake_done, srtp_, publisher_,
                   player_, stat_, source_, tracks_, nn, last_binding_at, last_binding_peer,
                   twcc_id_, sendVars, wire>>

\* A STUN packet arrives from peer address skt.
OnStunFrom(peers) ==
    \E skt \in peers, r \in StunPackets, fail \in StunFailures :
        /\ req # NULL
        /\ LET res == on_stun(skt, r, fail)
           IN  /\ last_stun_time' = res.last_stun_time
               /\ sendonly_skt' = res.sendonly_skt
               /\ peer_id_' = res.peer_id_
               /\ id_sessions' = res.id_sessions
               /\ state_' = res.state_
               /\ nn' = AddCalls(nn, res.calls)
               /\ last' = [op |-> "on_stun", arg |-> [skt |-> skt, r |-> r],
                           err |-> res.err, calls |-> res.calls, out |-> <<>>]
        /\ last_binding_at' = IF r.binding_request THEN now ELSE last_binding_at
        /\ last_binding_peer' = IF r.binding_request THEN skt ELSE last_binding_peer
        /\ UNCHANGED <<now, config, req, is_publisher_, session_timeout, handshake_done,
                       srtp_, publisher_, player_, stat_, source_, tracks_, twcc_id_,
                       sendVars, wire>>

\* A DTLS record arrives from the indexed peer; done: it completes the handshake, so
\* that SrsDtls calls back on_dtls_handshake_done (again, for a retransmitted flight).
on_dtls(done, fail) ==
    IF done
    THEN on_dtls_handshake_done(fail)
    ELSE [publisher_ |-> publisher_, player_ |-> player_, source_ |-> source_,
          err |-> srs_success, handshake_done |-> handshake_done, srtp_ |-> srtp_,
          calls |-> <<>>]

OnDtlsOf(fails) ==
    \E done \in BOOLEAN, fail \in fails :
        /\ req # NULL
        /\ sendonly_skt # NULL
        /\ LET res == on_dtls(done, fail)
           IN  /\ handshake_done' = res.handshake_done
               /\ srtp_' = res.srtp_
               /\ publisher_' = res.publisher_
               /\ player_' = res.player_
               /\ source_' = res.source_
               /\ nn' = AddCalls(nn, res.calls)
               /\ last' = [op |-> IF done THEN "on_dtls_handshake_done" ELSE "on_dtls",
                           arg |-> [done |-> done], err |-> res.err, calls |-> res.calls,
                           out |-> <<>>]
        /\ UNCHANGED <<now, config, state_, req, is_publisher_, last_stun_time,
                       session_timeout, sendonly_skt, peer_id_, id_sessions, stat_,
                       tracks_, last_binding_at, last_binding_peer, twcc_id_, sendVars, wire>>

\* An SRTP datagram arrives from the indexed peer.
OnRtpOf(datagrams) ==
    \E d \in datagrams, fail \in RtpFailures :
        /\ req # NULL
        /\ sendonly_skt # NULL
        /\ stat_.nn_in_rtp < MaxRtp
        /\ LET res == on_rtp(d, fail)
           IN  /\ publisher_' = res.publisher_
               /\ stat_' = res.stat_
               /\ tracks_' = res.tracks_
               /\ source_' = res.source_
               /\ last' = [op |-> "on_rtp", arg |-> d, err |-> res.err, calls |-> res.calls,
                           out |-> <<>>]
        /\ UNCHANGED <<now, config, state_, req, is_publisher_, last_stun_time,
                       session_timeout, sendonly_skt, peer_id_, id_sessions, handshake_done,
                       srtp_, player_, nn, last_binding_at, last_binding_peer, twcc_id_,
                       sendVars, wire>>

\* The play coroutine dumps a batch of packets from the consumer and sends it.
\* The TWCC feedback gate, 50 * SRS_UTIME_MILLISECONDS; the clock counts in units of
\* 50 ms.
kTwccFeedbackInterval == 1

\* What may go wrong inside the collaborators of the report timer.
NotifyFailures == {"none", "encode"}

\* A publish stream that emits feedback without looking at the clock.
send_periodic_twcc_ungated(pub, fail) ==
    [publisher_ |-> [pub EXCEPT !.last_twcc_feedback_time_ = now,
                                !.twcc_fb_count_ = (@ + 1) % 256, !.twcc_recv = {}],
     err |-> srs_success,
     calls |-> <<"set_feedback_count", "encode", "protect_rtcp", "sendto">>,
     sent |-> <<[feedback_count |-> pub.twcc_fb_count_, arrivals |-> pub.twcc_recv]>>,
     built |-> <<>>, wrote |-> <<>>]

\* A publish stream that never advances the feedback count.
send_periodic_twcc_same_count(pub, fail) ==
    IF pub.last_twcc_feedback_time_ = 0 \/ now - pub.last_twcc_feedback_time_ < kTwccFeedbackInterval
    THEN [publisher_ |-> [pub EXCEPT !.last_twcc_feedback_time_ = IF @ = 0 THEN now ELSE @],
          err |-> srs_success, calls |-> <<>>, sent |-> <<>>, built |-> <<>>,
          wrote |-> <<>>]
    ELSE [publisher_ |-> [pub EXCEPT !.last_twcc_feedback_time_ = now, !.twcc_recv = {}],
          err |-> srs_success,
          calls |-> <<"set_feedback_count", "encode", "protect_rtcp", "sendto">>,
          sent |-> <<[feedback_count |-> pub.twcc_fb_count_, arrivals |-> pub.twcc_recv]>>,
          built |-> <<>>, wrote |-> <<>>]

\* SrsRtcPublishStream::send_periodic_twcc.  The feedback packet carries the 8-bit
\* feedback count and the arrivals recorded since the last one.
send_periodic_twcc(pub, fail) ==
    LET diff == now - pub.last_twcc_feedback_time_
        counted == [pub EXCEPT !.last_twcc_feedback_time_ = now,
                               !.twcc_fb_count_ = (@ + 1) % 256]
        pkt == [feedback_count |-> pub.twcc_fb_count_, arrivals |-> pub.twcc_recv]
        p == protect_rtcp(pkt)
    IN  IF pub.last_twcc_feedback_time_ = 0
        THEN [publisher_ |-> [pub EXCEPT !.last_twcc_feedback_time_ = now],
              err |-> srs_success, calls |-> <<>>, sent |-> <<>>, built |-> <<>>,
              wrote |-> <<>>]
        ELSE IF diff >= kTwccFeedbackInterval
        THEN IF fail = "encode"
             THEN [publisher_ |-> counted,
                   err |-> "fail to generate twcc feedback packet",
                   calls |-> <<"set_feedback_count", "encode">>, sent |-> <<>>,
                   built |-> <<>>, wrote |-> <<>>]
             ELSE IF p.err = srs_success
             THEN [publisher_ |-> [counted EXCEPT !.twcc_recv = {}], err |-> srs_success,
                   calls |-> <<"set_feedback_count", "encode", "protect_rtcp", "sendto">>,
                   sent |-> <<pkt>>, built |-> <<pkt>>, wrote |-> p.output]
             ELSE [publisher_ |-> [counted EXCEPT !.twcc_recv = {}], err |-> srs_success,
                   calls |-> <<"set_feedback_count", "encode", "protect_rtcp">>,
                   sent |-> <<>>, built |-> <<pkt>>, wrote |-> <<>>]
        ELSE [publisher_ |-> pub, err |-> srs_success, calls |-> <<>>, sent |-> <<>>,
              built |-> <<>>, wrote |-> <<>>]

\* SrsRtcConnection::send_rtcp_rr: the report block for one receive track; the time
\* since the last sender report is in milliseconds, a tick of the clock being 50 ms.
\* The sender report's NTP time is the 64-bit value with its top 16 bits clear, so
\* its middle 32 bits are the whole of what is above the low 16.
send_rtcp_rr(ssrc, rtp_queue, last_send_systime, last_send_ntp) ==
    LET dlsr == (now - last_send_systime) * 50
        rr == [ssrc |-> ssrc,
               fraction_lost |-> 0,
               cumulative_number_of_packets_lost |-> 0,
               extended_highest_sequence |-> rtp_queue.extended_highest_sequence,
               interarrival_jitter |-> 0,
               rr_lsr |-> IF last_send_systime > 0
                          THEN last_send_ntp \div 65536 ELSE 0,
               rr_dlsr |-> IF last_send_systime > 0
                           THEN ((dlsr \div 1000) % 65536) * 65536
                                + ((dlsr % 1000) * 65536) \div 1000
                           ELSE 0]
        p == protect_rtcp(rr)
    IN  IF p.err # srs_success
        THEN [err |-> p.err, sent |-> <<>>, built |-> <<rr>>, wrote |-> <<>>]
        ELSE [err |-> srs_success, sent |-> <<rr>>, built |-> <<rr>>, wrote |-> p.output]

\* SrsRtcPublishStream::send_rtcp_rr: the video tracks, then the audio tracks.
SrsRtcPublishStream_send_rtcp_rr(pub) ==
    send_rtcp_rr(Sdp.video_ssrc, pub.rtp_queue.video, pub.send_report_systime.video,
                 pub.send_report_time.video).sent
    \o send_rtcp_rr(Sdp.audio_ssrc, pub.rtp_queue.audio, pub.send_report_systime.audio,
                    pub.send_report_time.audio).sent

\* SrsRtcPublishStream::notify, the tick of the report timer: RR and XR for the
\* tracks, then the TWCC feedback; the errors are not checked.
notify(fail) ==
    LET t == send_periodic_twcc(publisher_, fail)
    IN  [publisher_ |-> t.publisher_,
         stat_ |-> [stat_ EXCEPT !.nn_rr = @ + 1, !.nn_xr = @ + 1],
         err |-> srs_success,
         calls |-> <<"notify", "send_rtcp_rr", "send_rtcp_xr_rrtr", "send_periodic_twcc">>
                   \o t.calls,
         out |-> [twcc_err |-> t.err, sent |-> t.sent,
                  rr |-> SrsRtcPublishStream_send_rtcp_rr(publisher_),
                  built |-> t.built, wrote |-> t.wrote]]

\* The report timer fires; it runs from the moment start() has started it.
NotifyOf(fails) ==
    \E fail \in fails :
        /\ ~publisher_.null
        /\ nn["report_timer_start"] > 0
        /\ nn["notify"] < MaxNotify
        /\ LET res == notify(fail)
           IN  /\ publisher_' = res.publisher_
               /\ stat_' = res.stat_
               /\ nn' = AddCalls(nn, res.calls)
               /\ wire' = [wire EXCEPT !.feedback =
                              @ \o [k \in 1..Len(res.out.sent) |->
                                       [at |-> now, count |-> res.out.sent[k].feedback_count]]]
               /\ last' = [op |-> "notify", arg |-> <<>>, err |-> res.err,
                           calls |-> res.calls, out |-> res.out]
        /\ UNCHANGED <<now, config, state_, req, is_publisher_, last_stun_time,
                       session_timeout, sendonly_skt, peer_id_, id_sessions, handshake_done,
                       srtp_, player_, source_, tracks_, twcc_id_, last_binding_at,
                       last_binding_peer, sendVars>>

\* SrsRtcConnection::send_rtcp_xr_rrtr: one XR packet with a receiver reference time
\* block (BT 4, block length 2) that carries the NTP time of now.
send_rtcp_xr_rrtr(ssrc) ==
    LET xr == [BaseRtcp EXCEPT !.pt = RtcpType.kXR, !.length = 20, !.ssrc = ssrc,
                               !.ntp = now, !.words = <<4 * 16777216 + 2>>]
        p == protect_rtcp(xr)
    IN  IF p.err # srs_success
        THEN [err |-> p.err, built |-> <<xr>>, wrote |-> <<>>]
        ELSE [err |-> srs_success, built |-> <<xr>>, wrote |-> p.output]

\* SrsRtcConnection::send_rtcp_fb_pli.
send_rtcp_fb_pli(ssrc) ==
    LET pli == [Rtcp.pli EXCEPT !.ssrc = ssrc]
        p == protect_rtcp(pli)
    IN  IF p.err # srs_success
        THEN [err |-> p.err, built |-> <<pli>>, wrote |-> <<>>]
        ELSE [err |-> srs_success, built |-> <<pli>>, wrote |-> p.output]

\* How the build evaluates a shift of an int by a count outside 0..31, which the
\* language leaves undefined: the count taken modulo 32, or taken modulo 256 with
\* every count of 32 and more giving 0.
ShiftBuilds == {"mod32", "mod256"}

\* The low 16 bits of 1 << count, as they are or-ed into a uint16_t.
shl_uint16(count, build) ==
    LET c == IF count \in 0..31 THEN count
             ELSE IF build = "mod32" THEN count % 32 ELSE count % 256
    IN  IF c <= 15 THEN 2 ^ c ELSE 0

\* blp | bit, for a bit that is zero or a power of two.
or_uint16(blp, bit) == IF bit = 0 \/ (blp \div bit) % 2 = 1 THEN blp ELSE blp + bit

\* The inner loop of check_send_nacks: the sequence numbers that follow pid are
\* folded into blp while *(iter + 1) - pid <= 15, the operands being promoted to int.
RECURSIVE check_send_nacks_blp(_, _, _, _, _, _)
check_send_nacks_blp(nack_seqs, iter, pid, blp, shifts, build) ==
    IF iter + 1 <= Len(nack_seqs) /\ nack_seqs[iter + 1] - pid <= 15
    THEN LET count == nack_seqs[iter + 1] - pid - 1
         IN  check_send_nacks_blp(nack_seqs, iter + 1, pid,
                                  or_uint16(blp, shl_uint16(count, build)),
                                  Append(shifts, count), build)
    ELSE [iter |-> iter, blp |-> blp, shifts |-> shifts]

\* The contents of a buffer on the stack that nothing has written: bytes that are no
\* SRTCP packet, or the protected packet an earlier call left there.
Indeterminate ==
    {[srtp |-> "rtcp", auth |-> FALSE, plain |-> [BaseRtcp EXCEPT !.pt = 255]],
     [srtp |-> "rtcp", auth |-> TRUE, plain |-> Rtcp.pli]}

\* SrsRtcConnection::check_send_nacks, from position iter of the list on.  protect_rtcp
\* is called with protected_buf as the plaintext and the stream as the output, and
\* protected_buf, which nothing has written, is what is sent.
RECURSIVE check_send_nacks_from(_, _, _, _, _, _)
check_send_nacks_from(nack_seqs, iter, ssrc, build, stack, acc) ==
    IF iter > Len(nack_seqs)
    THEN acc
    ELSE LET pid == nack_seqs[iter]
             b == check_send_nacks_blp(nack_seqs, iter, pid, 0, <<>>, build)
             pkt == Nack(ssrc, pid, b.blp)
             p == protect_rtcp(stack.plain)
         IN  check_send_nacks_from(nack_seqs, b.iter + 1, ssrc, build, stack,
                 [built |-> Append(acc.built, pkt),
                  wrote |-> IF p.err = srs_success THEN Append(acc.wrote, stack)
                            ELSE acc.wrote,
                  shifts |-> acc.shifts \o b.shifts])

check_send_nacks(nack_seqs, ssrc, build, stack) ==
    check_send_nacks_from(nack_seqs, 1, ssrc, build, stack,
                          [built |-> <<>>, wrote |-> <<>>, shifts |-> <<>>])

\* One of the RTCP senders of the connection is called by a track.
SendRtcp(op, arg, res) ==
    /\ req # NULL
    /\ sendonly_skt # NULL
    /\ last' = [op |-> op, arg |-> arg, err |-> res.err, calls |-> <<op>>,
                out |-> [built |-> res.built, wrote |-> res.wrote, shifts |-> res.shifts]]
    /\ UNCHANGED <<now, config, state_, req, is_publisher_, last_stun_time, session_timeout,
                   sendonly_skt, peer_id_, id_sessions, handshake_done, srtp_, publisher_,
                   player_, stat_, source_, tracks_, nn, last_binding_at,
                   last_binding_peer, twcc_id_, sendVars, wire>>

\* What the peer and the controller have seen once a handler's output is added.
OnWire(w, out) ==
    [w EXCEPT !.stamped = @ \o out.stamped,
              !.rtp = @ \o [k \in 1..Len(out.sent) |-> out.sent[k].plain.twcc_sn]]

\* The loop that frees the packets of the vector, from index i on.
RECURSIVE free_packets_from(_, _, _)
free_packets_from(i, msg_count, st) ==
    IF ~(i < msg_count)
    THEN st
    ELSE free_packets_from(i + 1, msg_count,
             [st EXCEPT !.out.freed = Append(@, st.player_.pkts[i + 1]),
                        !.calls = @ \o <<"srs_freep">>])

\* A play loop that dispatches what the consumer holds before it polls.
cycle_poll_last(dumped, fail) ==
    LET st0 == [Cur EXCEPT !.calls = <<"wait", "dump_packets">>,
                           !.player_.pkts = @ \o dumped]
        sent == send_packets(st0.player_.pkts,
                             [st0 EXCEPT !.stat_.nn_out_rtp = @ + Len(st0.player_.pkts)],
                             fail)
        done == IF Len(st0.player_.pkts) = 0
                THEN st0
                ELSE [free_packets_from(0, Len(st0.player_.pkts), sent)
                         EXCEPT !.player_.pkts = <<>>]
    IN  IF player_.trd.interrupted
        THEN [done EXCEPT !.err = "rtc sender thread", !.calls = @ \o <<"pull">>,
                          !.player_.trd.terminated = TRUE]
        ELSE [done EXCEPT !.calls = @ \o <<"pull">>]

\* One iteration of the loop of SrsRtcPlayStream::cycle, the consumer handing over
\* dumped: the coroutine is polled, the packets are dumped into the vector of the
\* loop, counted, sent whatever send_packets returns, freed one by one and the
\* vector is cleared.  err is what send_packets returned, or the interrupt.
cycle(dumped, fail) ==
    LET st0 == [Cur EXCEPT !.calls = <<"pull", "wait", "dump_packets">>,
                           !.player_.pkts = @ \o dumped]
        sent == send_packets(st0.player_.pkts,
                             [st0 EXCEPT !.stat_.nn_out_rtp = @ + Len(st0.player_.pkts)],
                             fail)
    IN  IF player_.trd.interrupted
        THEN [Cur EXCEPT !.err = "rtc sender thread", !.calls = <<"pull">>,
                         !.player_.trd.terminated = TRUE]
        ELSE IF Len(st0.player_.pkts) = 0
        THEN st0
        ELSE IF sent.err = SIGSEGV
        THEN sent
        ELSE [free_packets_from(0, Len(st0.player_.pkts), sent)
                 EXCEPT !.player_.pkts = <<>>]

\* SrsRtcPlayStream::stop_loop: trd->interrupt(), after which pull() reports the
\* interrupt.
stop_loop(play) == [play EXCEPT !.trd.interrupted = TRUE]

StopLoop ==
    /\ ~player_.null
    /\ player_.is_started
    /\ ~player_.trd.interrupted
    /\ player_' = stop_loop(player_)
    /\ last' = [op |-> "stop_loop", arg |-> <<>>, err |-> srs_success,
                calls |-> <<"interrupt">>, out |-> <<>>]
    /\ UNCHANGED <<now, config, state_, req, is_publisher_, last_stun_time,
                   session_timeout, sendonly_skt, peer_id_, id_sessions, handshake_done,
                   srtp_, publisher_, stat_, source_, tracks_, twcc_id_, nn, wire,
                   last_binding_at, last_binding_peer, sendVars>>

\* The play coroutine runs one iteration of its loop, unless cycle has returned.
SendPacketsOf(batches, fails) ==
    \E pkts \in batches, fail \in fails :
        /\ ~player_.null
        /\ player_.is_started
        /\ ~player_.trd.terminated
        /\ nn["send_packets"] < MaxSend \/ player_.trd.interrupted
        /\ LET res == cycle(pkts, fail)
           IN  /\ player_' = res.player_
               /\ stat_' = res.stat_
               /\ twcc_controller' = res.twcc_controller
               /\ nn_simulate_player_nack_drop' = res.nn_simulate_player_nack_drop
               /\ nn' = AddCalls(nn, res.calls)
               /\ wire' = OnWire(wire, res.out)
               /\ last' = [op |-> IF "send_packets" \in Range(res.calls)
                                  THEN "send_packets" ELSE "cycle",
                           arg |-> IF player_.trd.interrupted THEN <<>> ELSE pkts,
                           err |-> res.err, calls |-> res.calls, out |-> res.out]
        /\ UNCHANGED <<now, config, state_, req, is_publisher_, last_stun_time,
                       session_timeout, sendonly_skt, peer_id_, id_sessions, handshake_done,
                       srtp_, publisher_, source_, tracks_, encrypt, twcc_id_,
                       last_binding_at, last_binding_peer>>

\* The HTTP API selects the tracks the player sends: set_play_track_active(cfgs).
SetPlayTrackActiveOf(lists) ==
    \E cfgs \in lists :
        /\ req # NULL
        /\ nn["set_track_active"] < MaxSetActive
        /\ LET res == set_play_track_active(cfgs)
               calls == <<"set_track_active">> \o res.calls
           IN  /\ player_' = res.player_
               /\ source_' = res.source_
               /\ nn' = AddCalls(nn, calls)
               /\ last' = [op |-> "set_play_track_active", arg |-> cfgs, err |-> res.err,
                           calls |-> calls, out |-> <<>>]
        /\ UNCHANGED <<now, config, state_, req, is_publisher_, last_stun_time,
                       session_timeout, sendonly_skt, peer_id_, id_sessions, handshake_done,
                       srtp_, publisher_, stat_, tracks_, twcc_id_, wire, last_binding_at,
                       last_binding_peer, sendVars>>

\* srs_parse_h264_fmtp: the parameters of an a=fmtp line, or an error for a line
\* that is not a list of name=value pairs with the three H.264 parameters.
srs_parse_h264_fmtp(fmtp) ==
    IF ~fmtp.parsable
    THEN [err |-> "ERROR_RTC_SDP_DECODE",
          h264_param |-> [packetization_mode |-> "", level_asymmerty_allow |-> ""]]
    ELSE [err |-> srs_success,
          h264_param |-> [packetization_mode |-> fmtp.packetization_mode,
                          level_asymmerty_allow |-> fmtp.level_asymmerty_allow]]

\* The rtcp-fb lines of a payload type that the server keeps.
filter_rtcp_fbs(rtcp_fb, nack_enabled, twcc) ==
    SelectSeq(rtcp_fb,
              LAMBDA fb : \/ nack_enabled /\ fb \in {"nack", "nack pli"}
                          \/ twcc /\ fb = "transport-cc")

SrsVideoPayload(media_pt, nack_enabled, twcc) ==
    [payload_type_ |-> media_pt.payload_type_,
     h264_param |-> media_pt.format_specific_param_,
     rtcp_fbs_ |-> filter_rtcp_fbs(media_pt.rtcp_fb_, nack_enabled, twcc)]

\* The loop over the H.264 payload types of the remote video section, from iter on:
\* the payload chosen as best match, or none and the backup payloads.  A pointer
\* to a payload is the sequence of that payload, NULL the empty sequence.
RECURSIVE pick_h264_from(_, _, _)
pick_h264_from(iter, payloads, backup_payloads) ==
    IF iter > Len(payloads)
    THEN [media_ |-> <<>>, backup_payloads |-> backup_payloads]
    ELSE LET pt == payloads[iter]
             parsed == srs_parse_h264_fmtp(pt.format_specific_param_)
         IN  IF pt.format_specific_param_.empty
             THEN pick_h264_from(iter + 1, payloads, <<pt>> \o backup_payloads)
             ELSE IF parsed.err # srs_success
             THEN pick_h264_from(iter + 1, payloads, backup_payloads)
             ELSE IF /\ parsed.h264_param.packetization_mode = "1"
                     /\ parsed.h264_param.level_asymmerty_allow = "1"
             THEN [media_ |-> <<pt>>, backup_payloads |-> backup_payloads]
             ELSE pick_h264_from(iter + 1, payloads, Append(backup_payloads, pt))

\* SrsRtcConnection::negotiate_publish_capability, for a remote video section: the
\* codec payload of the track description, chosen among the H.264 payload types
\* the section offers (media_ NULL: the track has no codec payload).
negotiate_publish_video(payloads, nack_enabled, twcc) ==
    LET picked == pick_h264_from(1, payloads, <<>>)
    IN  IF payloads = <<>>
        THEN [err |-> "ERROR_RTC_SDP_EXCHANGE", media_ |-> <<>>, calls |-> <<>>]
        ELSE IF picked.media_ # <<>>
        THEN [err |-> srs_success,
              media_ |-> <<SrsVideoPayload(picked.media_[1], nack_enabled, twcc)>>,
              calls |-> <<>>]
        ELSE IF picked.backup_payloads # <<>>
        THEN [err |-> srs_success,
              media_ |-> <<SrsVideoPayload(picked.backup_payloads[1], nack_enabled, twcc)>>,
              calls |-> <<"choose backup H.264 payload type">>]
        ELSE [err |-> srs_success, media_ |-> <<>>, calls |-> <<>>]

\* The server negotiates the tracks of a publisher, once, before it creates the
\* session.
NegotiatePublishOf(offers) ==
    \E payloads \in offers, twcc \in BOOLEAN :
        /\ req = NULL
        /\ nn["negotiate_publish_capability"] = 0
        /\ LET res == negotiate_publish_video(payloads, config.rtc_nack_enabled, twcc)
               calls == <<"negotiate_publish_capability">> \o res.calls
           IN  /\ nn' = AddCalls(nn, calls)
               /\ last' = [op |-> "negotiate_publish_capability",
                           arg |-> [payloads |-> payloads, twcc |-> twcc],
                           err |-> res.err, calls |-> calls,
                           out |-> [media_ |-> res.media_]]
        /\ UNCHANGED <<now, config, state_, req, is_publisher_, last_stun_time,
                       session_timeout, sendonly_skt, peer_id_, id_sessions, handshake_done,
                       srtp_, publisher_, player_, stat_, source_, tracks_, twcc_id_,
                       wire, last_binding_at, last_binding_peer, sendVars>>

\* SrsRtcConnection::simulate_nack_drop, the NACK simulator of the HTTP API.
simulate_nack_drop(n) ==
    [publisher_ |-> IF ~publisher_.null
                    THEN [publisher_ EXCEPT !.nn_simulate_nack_drop = n]
                    ELSE publisher_,
     nn_simulate_player_nack_drop |-> n]

SimulateNackDrop ==
    \E n \in 1..MaxDrop :
        /\ req # NULL
        /\ LET res == simulate_nack_drop(n)
           IN  /\ publisher_' = res.publisher_
               /\ nn_simulate_player_nack_drop' = res.nn_simulate_player_nack_drop
        /\ last' = [op |-> "simulate_nack_drop", arg |-> n, err |-> srs_success,
                    calls |-> <<"simulate_nack_drop">>, out |-> <<>>]
        /\ UNCHANGED <<now, config, state_, req, is_publisher_, last_stun_time,
                       session_timeout, sendonly_skt, peer_id_, id_sessions, handshake_done,
                       srtp_, player_, stat_, source_, tracks_, encrypt, twcc_id_,
                       twcc_controller, nn, wire, last_binding_at, last_binding_peer>>

\* SrsRtcPublishStream::start of the publisher of another connection: it registers
\* with the source of the stream of this connection.
RemoteStart ==
    /\ req # NULL
    /\ source_.publish_stream = NULL
    /\ source_' = [source_ EXCEPT !.publish_stream = "remote"]
    /\ last' = [op |-> "set_publish_stream", arg |-> "remote", err |-> srs_success,
                calls |-> <<>>, out |-> <<>>]
    /\ UNCHANGED <<now, config, state_, req, is_publisher_, last_stun_time,
                   session_timeout, sendonly_skt, peer_id_, id_sessions, handshake_done,
                   srtp_, publisher_, player_, stat_, tracks_, nn, last_binding_at,
                   last_binding_peer, twcc_id_, sendVars, wire>>

\* The other publisher registers with the source the player of this connection
\* consumes.
RemotePublish == ~is_publisher_ /\ RemoteStart

\* SrsRtcPublishStream::~SrsRtcPublishStream
SrsRtcPublishStream_destroy(pub, source) ==
    IF pub.source # NULL
    THEN [source_ |-> [source EXCEPT !.publish_stream = NULL],
          calls |-> <<"set_publish_stream", "on_unpublish">>]
    ELSE [source_ |-> source, calls |-> <<>>]

\* SrsRtcConnection::~SrsRtcConnection: the player, the publisher, the transport, the
\* request and the socket are freed; nothing is done with the connection afterwards.
Destroy ==
    /\ req # NULL
    /\ LET d == IF publisher_.null THEN [source_ |-> source_, calls |-> <<>>]
                ELSE SrsRtcPublishStream_destroy(publisher_, source_)
       IN  /\ source_' = d.source_
           /\ last' = [op |-> "~SrsRtcConnection", arg |-> <<>>, err |-> srs_success,
                       calls |-> d.calls, out |-> <<>>]
    /\ player_' = NewPlayStream
    /\ publisher_' = NewPublishStream
    /\ srtp_' = [null |-> TRUE, initialized |-> FALSE]
    /\ req' = NULL
    /\ sendonly_skt' = NULL
    /\ UNCHANGED <<now, config, state_, is_publisher_, last_stun_time, session_timeout,
                   peer_id_, id_sessions, handshake_done, stat_, tracks_, nn,
                   last_binding_at, last_binding_peer, twcc_id_, sendVars, wire>>

OnRtcpOf(datagrams, fails) ==
    \E d \in datagrams, fail \in fails :
        /\ req # NULL
        /\ sendonly_skt # NULL
        /\ nn["on_rtcp"] < MaxRtcp
        /\ LET res == on_rtcp(d, fail)
           IN  /\ player_' = res.player_
               /\ publisher_' = res.publisher_
               /\ stat_' = res.stat_
               /\ source_' = res.source_
               /\ twcc_controller' = res.twcc_controller
               /\ nn_simulate_player_nack_drop' = res.nn_simulate_player_nack_drop
               /\ nn' = AddCalls(nn, res.calls)
               /\ wire' = OnWire(wire, res.out)
               /\ last' = [op |-> "on_rtcp", arg |-> d, err |-> res.err,
                           calls |-> res.calls, out |-> res.out]
        /\ UNCHANGED <<now, config, state_, req, is_publisher_, last_stun_time,
                       session_timeout, sendonly_skt, peer_id_, id_sessions, handshake_done,
                       srtp_, tracks_, encrypt, twcc_id_, last_binding_at,
                       last_binding_peer>>

\* Time passes.
Tick ==
    /\ now < MaxTime
    /\ now' = now + 1
    /\ last' = [op |-> "tick", arg |-> <<>>, err |-> srs_success, calls |-> <<>>,
                out |-> <<>>]
    /\ UNCHANGED <<config, state_, req, is_publisher_, last_stun_time, session_timeout,
                   sendonly_skt, peer_id_, id_sessions, handshake_done, srtp_, publisher_,
                   player_, stat_, source_, tracks_, nn, last_binding_at,
                   last_binding_peer, twcc_id_, sendVars, wire>>

----------------------------------------------------------------------------
(* The specifications.                                                     *)

\* STUN and the keep-alive clock: every peer address, every configuration of the
\* strict check and of the session timeout.
ConfigsStun == {c \in Configs : /\ ~c.rtc_nack_enabled /\ c.rtc_drop_for_pt = 0
                                /\ ~c.rtc_gcc_enabled /\ c.SRS_CXX14}

InitStun == InitWith(ConfigsStun)

OnStun == OnStunFrom(Peers)

NextStun == CreateSession \/ SetupSession \/ OnStun \/ Tick

SpecStun == InitStun /\ [][NextStun]_vars

\* The handshake and inbound media: one peer address, every datagram.
ConfigsRtp == {c \in Configs : ~c.rtc_stun_strict_check /\ c.rtc_stun_timeout = 1
                               /\ ~c.rtc_nack_enabled /\ ~c.rtc_gcc_enabled
                               /\ c.SRS_CXX14}

InitRtp == InitWith(ConfigsRtp)

OnStunOnePeer == OnStunFrom({"10.0.0.1:5000"})

OnRtp == OnRtpOf(RtpDatagrams)

OnDtls == OnDtlsOf(HandshakeFailures)

NextRtp == CreateSession \/ SetupSession \/ OnStunOnePeer \/ OnDtls \/ OnRtp

SpecRtp == InitRtp /\ [][NextRtp]_vars

\* Retransmission: a player whose handshake succeeds, media around the sequence
\* number wrap, and the NACKs of the peer.
ConfigsNack == {c \in Configs : /\ ~c.rtc_stun_strict_check /\ c.rtc_stun_timeout = 1
                                /\ c.rtc_drop_for_pt = 0 /\ c.SRS_CXX14}

InitNack == InitWith(ConfigsNack)

CreatePlayer == CreateSession /\ ~is_publisher_'

OnStunFirst == OnStunOnePeer /\ state_' # state_ /\ last'.err = srs_success

OnDtlsDone == OnDtlsOf({"none"}) /\ handshake_done' # handshake_done

SendPackets == SendPacketsOf(SendBatches, {NoSendFailure})

OnNack == OnRtcpOf(Authentic(NackPlains), {NoSendFailure})

NextNack ==
    CreatePlayer \/ SetupSession \/ OnStunFirst \/ OnDtlsDone \/ SendPackets \/ OnNack

SpecNack == InitNack /\ [][NextNack]_vars

----------------------------------------------------------------------------
(* A player subscribed to the two layers of a camera: the API selects the  *)
(* tracks while video and audio of both layers are dispatched.             *)

\* SrsTrackConfig, the entries of the request: the audio track and a label no track
\* has, and both layers of the camera, each switched on or off.
TrackConfigs ==
    [type_ : {"audio"}, label_ : {"audio"}, active : BOOLEAN]
    \cup {[type_ |-> "audio", label_ |-> "mic", active |-> TRUE]}
    \cup [type_ : {"video"}, label_ : {"camera_large", "camera_small"}, active : BOOLEAN]

\* The requests: no entry, one entry, two different entries of one type of which
\* one at least switches a track on, and an audio entry with a video entry.
CfgLists ==
    {<<>>} \cup {<<a>> : a \in TrackConfigs}
    \cup {<<p[1], p[2]>> : p \in {q \in TrackConfigs \X TrackConfigs :
                                     /\ q[1].type_ = q[2].type_ /\ q[1] # q[2]
                                     /\ (q[1].active \/ q[2].active)}}
    \cup {<<[type_ |-> "audio", label_ |-> "audio", active |-> TRUE],
            [type_ |-> "video", label_ |-> "camera_large", active |-> TRUE]>>}

\* Media of the source: audio, and key-frames and other frames of either layer.
SwitchPackets ==
    {[ssrc |-> Sdp.audio_ssrc, seq |-> 7, is_audio |-> TRUE, nb_bytes |-> Sdp.nb_bytes,
      is_keyframe |-> FALSE]}
    \cup {[ssrc |-> ssrc, seq |-> 7, is_audio |-> FALSE, nb_bytes |-> Sdp.nb_bytes,
           is_keyframe |-> key] : ssrc \in {Sdp.video_ssrc, Sdp.small_ssrc},
                                  key \in BOOLEAN}

SwitchBatches ==
    {<<p>> : p \in SwitchPackets}
    \cup {<<p[1], p[2]>> : p \in {q \in SwitchPackets \X SwitchPackets :
                                     /\ q[1].is_keyframe /\ ~q[2].is_keyframe
                                     /\ ~q[2].is_audio /\ q[1].ssrc # q[2].ssrc}}

InitTrack == InitWith({c \in ConfigsNack : ~c.rtc_nack_enabled /\ ~c.rtc_gcc_enabled})

CreateMergedPlayer ==
    CreateSessionOf({MergedRelations(a) : a \in BOOLEAN}) /\ ~is_publisher_'

SetPlayTrackActive == SetPlayTrackActiveOf(CfgLists)

\* A round of the play loop; the key-frame of a lone packet may fail to be protected.
SendSwitch ==
    \/ SendPacketsOf(SwitchBatches, {NoSendFailure})
    \/ SendPacketsOf({<<p>> : p \in {x \in SwitchPackets : x.is_keyframe}},
                     {[what |-> "protect_rtp2", at |-> 1]})

NextTrack ==
    CreateMergedPlayer \/ SetupSession \/ OnStunFirst \/ OnDtlsDone \/ SetPlayTrackActive
    \/ SendSwitch

SpecTrack == InitTrack /\ [][NextTrack]_vars

----------------------------------------------------------------------------
(* The play loop of a player and its cancellation: the consumer hands over *)
(* nothing, one packet or two, a send may fail, and stop_loop interrupts.  *)

LoopBatches ==
    {<<>>} \cup SendBatches
    \cup {<<[ssrc |-> Sdp.video_ssrc, seq |-> 65534, is_audio |-> FALSE,
             nb_bytes |-> Sdp.nb_bytes, is_keyframe |-> TRUE],
            [ssrc |-> Sdp.unknown_ssrc, seq |-> 65535, is_audio |-> FALSE,
             nb_bytes |-> Sdp.nb_bytes, is_keyframe |-> FALSE]>>}

PlayLoop == SendPacketsOf(LoopBatches, {NoSendFailure, [what |-> "protect_rtp2", at |-> 1]})

NextLoop == CreatePlayer \/ SetupSession \/ OnStunFirst \/ OnDtlsDone \/ PlayLoop \/ StopLoop

SpecLoop == InitTrack /\ [][NextLoop]_vars

\* The report timer of a publisher: the handshake succeeds, the clock advances and
\* the timer fires at any time, several times within one unit of the clock.
InitTwcc == InitWith({c \in ConfigsRtp : c.rtc_drop_for_pt # 0})

CreatePublisher == CreateSession /\ is_publisher_'

OnDtlsFirst == OnDtlsOf({"none", "on_publish"}) /\ handshake_done' # handshake_done

Notify == NotifyOf(NotifyFailures)

OnRtpTwcc == OnRtpOf({d \in RtpDatagrams : d.plain = BaseRtp}) /\ last'.err = srs_success

NextTwcc ==
    \/ CreatePublisher \/ SetupSession \/ OnStunFirst \/ OnDtlsFirst
    \/ Notify \/ OnRtpTwcc \/ Tick

SpecTwcc == InitTwcc /\ [][NextTwcc]_vars

\* The play loop with media whose kind and SSRC the source may have set apart: an
\* audio packet under the SSRC of the video track, a video packet under the SSRC of
\* the audio track.
MixedPackets ==
    [ssrc : {Sdp.audio_ssrc, Sdp.video_ssrc, Sdp.unknown_ssrc}, seq : {7, 8},
     is_audio : BOOLEAN, nb_bytes : {Sdp.nb_bytes}, is_keyframe : {FALSE}]

MixedBatches ==
    {<<p>> : p \in MixedPackets}
    \cup {<<p[1], p[2]>> : p \in {q \in MixedPackets \X MixedPackets :
                                     q[1].seq = 7 /\ q[2].seq = 8
                                     /\ q[1].ssrc # q[2].ssrc}}

Crashed == last.err = SIGSEGV

SendMixed == SendPacketsOf(MixedBatches, {NoSendFailure, NullCallReturns})

NextDispatch ==
    \/ ~Crashed /\ CreatePlayer
    \/ ~Crashed /\ SetupSession
    \/ ~Crashed /\ OnStunFirst
    \/ ~Crashed /\ OnDtlsDone
    \/ ~Crashed /\ SendMixed

SpecDispatch == InitTrack /\ [][NextDispatch]_vars

\* The RTCP senders of a publisher, before and after SRTP is ready.  The lost
\* sequence numbers a receive track reports are in the order of its NACK queue, which
\* compares sequence numbers across the 16-bit wrap.
LostAround == <<65520, 65535, 0, 16, 100>>

MaxLost == 2

RECURSIVE PickFrom(_, _, _)
PickFrom(s, I, i) ==
    IF i > Len(s) THEN <<>>
    ELSE (IF i \in I THEN <<s[i]>> ELSE <<>>) \o PickFrom(s, I, i + 1)

NackSeqLists ==
    {PickFrom(LostAround, I, 1) :
        I \in {J \in SUBSET DOMAIN LostAround : Cardinality(J) <= MaxLost}}

SendRr ==
    /\ ~publisher_.null
    /\ \E kind \in {"audio", "video"} :
           LET ssrc == IF kind = "audio" THEN Sdp.audio_ssrc ELSE Sdp.video_ssrc
           IN  SendRtcp("send_rtcp_rr", [ssrc |-> ssrc],
                        send_rtcp_rr(ssrc, publisher_.rtp_queue[kind],
                                     publisher_.send_report_systime[kind],
                                     publisher_.send_report_time[kind])
                        @@ [shifts |-> <<>>])

SendXrRrtr ==
    \E ssrc \in {Sdp.audio_ssrc, Sdp.video_ssrc} :
        SendRtcp("send_rtcp_xr_rrtr", [ssrc |-> ssrc],
                 send_rtcp_xr_rrtr(ssrc) @@ [shifts |-> <<>>])

SendPli ==
    SendRtcp("send_rtcp_fb_pli", [ssrc |-> Sdp.video_ssrc],
             send_rtcp_fb_pli(Sdp.video_ssrc) @@ [shifts |-> <<>>])

CheckSendNacks ==
    \E nack_seqs \in NackSeqLists, build \in ShiftBuilds, stack \in Indeterminate :
        SendRtcp("check_send_nacks",
                 [nack_seqs |-> nack_seqs, ssrc |-> Sdp.video_ssrc, build |-> build,
                  stack |-> stack],
                 check_send_nacks(nack_seqs, Sdp.video_ssrc, build, stack)
                 @@ [err |-> srs_success])

OnDtlsSrtp == OnDtlsOf({"none", "srtp_initialize"})

NextFeedback ==
    \/ CreatePublisher \/ SetupSession \/ OnStunFirst \/ OnDtlsSrtp
    \/ Notify \/ Tick \/ SendRr \/ SendXrRrtr \/ SendPli \/ CheckSendNacks

SpecFeedback == InitTwcc /\ [][NextFeedback]_vars

----------------------------------------------------------------------------
(* The negotiation of a publisher's video section: every offer of up to    *)
(* MaxPayloads H.264 payload types, each without fmtp, with an fmtp that   *)
(* does not parse, or with one of the parsable fmtp lines.                 *)

\* The a=fmtp lines of the samples.
Fmtps ==
    {[empty |-> TRUE, parsable |-> FALSE, packetization_mode |-> "", level_asymmerty_allow |-> ""],
     [empty |-> FALSE, parsable |-> FALSE, packetization_mode |-> "",
      level_asymmerty_allow |-> ""]}
    \cup [empty : {FALSE}, parsable : {TRUE}, packetization_mode : {"0", "1"},
          level_asymmerty_allow : {"0", "1"}]

\* The offers: the k-th payload type of the section is numbered 100 + k.
H264Offers ==
    UNION {{[k \in 1..n |->
               [payload_type_ |-> 100 + k, format_specific_param_ |-> f[k],
                rtcp_fb_ |-> <<"goog-remb", "transport-cc", "nack", "nack pli">>]]
            : f \in [1..n -> Fmtps]} : n \in 0..MaxPayloads}

NegotiatePublish == NegotiatePublishOf(H264Offers)

NextSdp == NegotiatePublish \/ CreatePublisher \/ SetupSession

SpecSdp == InitNack /\ [][NextSdp]_vars

----------------------------------------------------------------------------
(* A publisher whose video track receives packets with gaps and out of     *)
(* order, and whose report timer sends receiver reports.                   *)

RrSeqs == {10, 11, 13}

OnRtpSeq ==
    /\ OnRtpOf({d \in [srtp : {"rtp"}, auth : {TRUE},
                        plain : {[BaseRtp EXCEPT !.seq = seq] : seq \in RrSeqs}] : TRUE})
    /\ last'.err = srs_success

NotifyRr == NotifyOf({"none"})

NextRr ==
    \/ CreatePublisher \/ SetupSession \/ OnStunFirst \/ OnDtlsFirst
    \/ NotifyRr \/ OnRtpSeq \/ Tick

SpecRr == InitTwcc /\ [][NextRr]_vars

\* Extended reports of the peer to a publisher, on a build that wraps an int that
\* overflows and on one that does not.  The last receiver report the peer echoes was
\* stamped when the model's clock read 0, one second before, or never (0); the peer
\* held it for no time or for 10 ms.  A receiver reference time block (type 4)
\* stands alone or before the DLRR block.
ConfigsXr == {[c EXCEPT !.int_overflow_wraps = w] :
                  c \in {k \in ConfigsRtp : k.rtc_drop_for_pt = 0}, w \in BOOLEAN}

InitXr == InitWith(ConfigsXr)

XrHeader(bt, block_length) == bt * 16777216 + block_length

Xr(words) == [BaseRtcp EXCEPT !.pt = RtcpType.kXR, !.length = 8 + 4 * Len(words),
                              !.words = words]

DlrrSubBlocks ==
    {<<ssrc, lrr, dlrr>> :
         ssrc \in {Sdp.video_ssrc}, dlrr \in {0, 655},
         lrr \in {0, compact_ntp_of(StartMs - 1000), compact_ntp_of(StartMs)}}
    \cup {<<ssrc, compact_ntp_of(StartMs), 0>> : ssrc \in {Sdp.audio_ssrc, Sdp.unknown_ssrc}}

XrPlains ==
    {Compound(<<Xr(<<XrHeader(5, 3)>> \o sub)>>) : sub \in DlrrSubBlocks}
    \cup {Compound(<<Xr(<<XrHeader(5, 6), Sdp.video_ssrc, compact_ntp_of(StartMs), 0,
                         Sdp.audio_ssrc, compact_ntp_of(StartMs - 1000), 0>>)>>),
          Compound(<<Xr(<<XrHeader(4, 2), 0, 0>>)>>),
          Compound(<<Xr(<<XrHeader(4, 2), 3, 0>>)>>),
          Compound(<<Xr(<<XrHeader(4, 2), 0, 0, XrHeader(5, 3), Sdp.video_ssrc,
                         compact_ntp_of(StartMs), 655>>)>>),
          Compound(<<Xr(<<XrHeader(4, 2), XrHeader(5, 3), Sdp.video_ssrc, XrHeader(5, 3),
                         Sdp.audio_ssrc, compact_ntp_of(StartMs), 0>>)>>),
          Compound(<<Rtcp.xr>>)}

OnRtcpXr == OnRtcpOf(Authentic(XrPlains), {NoSendFailure})

NextXr ==
    \/ CreatePublisher \/ SetupSession \/ OnStunFirst \/ OnDtlsFirst
    \/ OnRtcpXr \/ Tick

SpecXr == InitXr /\ [][NextXr]_vars

\* RTCP of the peer, for a publisher and for a player whose source has or has not a
\* publisher: every type the walkers know and types they do not, alone, before a
\* receiver report and after a sender report; every PS-FB format, alone, and some
\* of them before a receiver report; a retransmission
\* of the one packet sent, which may fail to be protected.
RtcpOfType(pt) == [BaseRtcp EXCEPT !.pt = pt]

PsFb(fmt) == [Rtcp.pli EXCEPT !.fmt = fmt]

\* The PS-FB formats next to the ones on_rtcp_ps_feedback names.
PsFbEdges == {0, 1, 2, 3, 4, 14, 15, 16, 31}

RtcpSubPackets ==
    {Rtcp.sr, Rtcp.rr, Rtcp.xr, Rtcp.pli, Nack(Sdp.play_video_ssrc, 65534, 0)}
    \cup {RtcpOfType(pt) : pt \in {RtcpType.kSDES, RtcpType.kBye, RtcpType.kApp, 199, 208}}

RtcpCompounds ==
    {Compound(<<x>>) : x \in RtcpSubPackets}
    \cup {Compound(<<x, Rtcp.rr>>) : x \in RtcpSubPackets}
    \cup {Compound(<<Rtcp.sr, x>>) : x \in RtcpSubPackets}
    \cup {Compound(<<PsFb(fmt)>>) : fmt \in 0..31}
    \cup {Compound(<<PsFb(fmt), Rtcp.rr>>) : fmt \in PsFbEdges}
    \cup {Compound(<<[Rtcp.pli EXCEPT !.ssrc = ssrc]>>) :
              ssrc \in {Sdp.play_rtx_ssrc, Sdp.unknown_ssrc}}
    \cup {Compound(<<Rtcp.rr, RtcpOfType(RtcpType.kSDES), Rtcp.pli, Rtcp.xr>>)}

InitRtcp == InitWith({c \in ConfigsNack : c.rtc_nack_enabled /\ ~c.rtc_gcc_enabled})

SendFirst == SendPackets /\ last'.arg[1].seq = 65534 /\ nn["send_packets"] = 0

RemotePublishEarly == RemotePublish /\ ~handshake_done

WithNack(plains) == {c \in plains : \E k \in 1..Len(c.pkts) : c.pkts[k].pt = RtcpType.kRtpFb}

OnRtcpSome ==
    /\ handshake_done
    /\ \/ OnRtcpOf(Authentic(RtcpCompounds), {NoSendFailure})
       \/ OnRtcpOf(Authentic(WithNack(RtcpCompounds)), {[what |-> "protect_rtp2", at |-> 1]})

NextRtcp ==
    \/ CreateSession \/ SetupSession \/ OnStunFirst \/ OnDtlsDone
    \/ RemotePublishEarly \/ SendFirst \/ OnRtcpSome

SpecRtcp == InitRtcp /\ [][NextRtcp]_vars

\* Datagrams that end before their last sub-packet does.  The sub-packets listed are
\* what the bytes of the receive buffer parse as, nb_data is where the datagram ends:
\* what follows is what the buffer held before, here a sub-packet that goes on past the
\* end of the datagram and zero bytes (type 0, length field 0) after it.
ZeroBytes == [BaseRtcp EXCEPT !.pt = 0, !.length = 4]

Truncated(nb_data, pkts) == [nb_data |-> nb_data, pkts |-> pkts \o <<ZeroBytes>>]

TruncatedPlains ==
    {Truncated(16, <<Rtcp.rr, Nack(Sdp.play_video_ssrc, 65534, 0)>>),
     Truncated(16, <<Rtcp.rr, Rtcp.sr>>),
     Truncated(16, <<Rtcp.rr, Rtcp.pli>>),
     Truncated(10, <<Rtcp.rr>>),
     Compound(<<Rtcp.rr, Rtcp.pli>>), Compound(<<Rtcp.rr, Rtcp.sr>>),
     Compound(<<Rtcp.rr>>), Oversize}

OnRtcpTruncated == OnRtcpOf(Authentic(TruncatedPlains), {NoSendFailure})

NextOverrun ==
    \/ CreateSession \/ SetupSession \/ OnStunFirst \/ OnDtlsDone \/ OnRtcpTruncated

SpecOverrun == InitRtcp /\ [][NextOverrun]_vars

\* Two publishers of one stream: the publisher of this connection, whose start may
\* fail at any collaborator, and the publisher of another connection, which may
\* register with the source at any time; this connection is destroyed at any time and
\* is not used after that.
Destroyed == last.op = "~SrsRtcConnection"

OnDtlsStart == OnDtlsOf({"none", "tick", "fetch_or_create", "on_publish", "hijacker"})

NextDestroy ==
    \/ ~Destroyed /\ CreatePublisher
    \/ ~Destroyed /\ SetupSession
    \/ ~Destroyed /\ OnStunFirst
    \/ ~Destroyed /\ OnDtlsStart
    \/ ~Destroyed /\ RemoteStart
    \/ ~Destroyed /\ Destroy

SpecDestroy == InitRtp /\ [][NextDestroy]_vars

\* A player on a build with the congestion controller.  The source delivers the media
\* in the order of its sequence numbers, from 65534 on; a send may fail in the encoder,
\* a retransmission in any collaborator of do_send_packets, and the NACK simulator may
\* drop packets.
ConfigsSend == {c \in ConfigsNack : c.rtc_nack_enabled /\ c.rtc_gcc_enabled}

FirstTwccSns == {0, 65535}

InitSend == InitOf(ConfigsSend, FirstTwccSns)

SendNacks == {Compound(<<Nack(Sdp.play_video_ssrc, 65534, blp)>>) : blp \in {3}}

ResendFailures ==
    {NoSendFailure, [what |-> "encode", at |-> 2], [what |-> "on_pre_send_packet", at |-> 1],
     [what |-> "protect_rtp2", at |-> 1], [what |-> "on_sent_packet", at |-> 2]}

SendInOrder ==
    /\ SendPacketsOf(SendBatches, {NoSendFailure, [what |-> "encode", at |-> 1]})
    /\ last'.arg[1].seq = uint16(65534 + nn["send_packets"])

\* The simulator is armed before the media flows.
SimulateEarly == SimulateNackDrop /\ ~player_.is_started

OnNackSome == OnRtcpOf({d \in RtcpDatagrams(SendNacks) : d.auth}, ResendFailures)

NextSend ==
    \/ CreatePlayer \/ SetupSession \/ OnStunFirst \/ OnDtlsDone
    \/ SimulateEarly \/ SendInOrder \/ OnNackSome

SpecSend == InitSend /\ [][NextSend]_vars

\* Every event of a connection: STUN, DTLS, RTP and RTCP from one peer address.
ConfigsAll == {c \in Configs : /\ ~c.rtc_stun_strict_check /\ c.rtc_stun_timeout = 1
                               /\ c.rtc_drop_for_pt = 0 /\ ~c.rtc_nack_enabled
                               /\ c.rtc_gcc_enabled /\ c.SRS_CXX14}

Init == InitWith(ConfigsAll)

OnRtpSome == OnRtpOf({d \in RtpDatagrams : d.plain \in {BaseRtp, [BaseRtp EXCEPT !.sn = -1]}})

OnRtcp == OnRtcpOf(Authentic(RtcpPlains), {NoSendFailure})

OnDtlsSome == OnDtlsOf({"none", "srtp_initialize", "on_publish"})

Next == CreateSession \/ SetupSession \/ OnStunOnePeer \/ OnDtlsSome \/ OnRtpSome \/ OnRtcp

Spec == Init /\ [][Next]_vars

----------------------------------------------------------------------------
(* Properties of STUN handling, checked under SpecStun.                    *)

\* A step in which on_stun handled a binding request.
BindingRequestStep == last'.op = "on_stun" /\ last'.arg.r.binding_request

Called(l, m) == m \in Range(l.calls)

\* C1 as stated: every binding request handled in WAITING_STUN moves the connection
\* to DOING_DTLS_HANDSHAKE and invokes start_active_handshake; in any other state it
\* changes nothing; start_active_handshake is invoked at most once per connection.
C1_AsStated ==
    [][BindingRequestStep =>
        /\ IF state_ = "WAITING_STUN"
           THEN state_' = "DOING_DTLS_HANDSHAKE" /\ Called(last', "start_active_handshake")
           ELSE state_' = state_ /\ ~Called(last', "start_active_handshake")
        /\ nn'["start_active_handshake"] <= 1]_vars

\* C1, amended: a binding request handled in WAITING_STUN whose binding response was
\* written to the socket (it passed the role check, and the response was encoded and
\* sent) moves the connection to DOING_DTLS_HANDSHAKE and invokes
\* start_active_handshake; every other binding request (rejected, unanswered, or handled
\* in another state) leaves the state unchanged and does not invoke it; over any
\* sequence of binding requests start_active_handshake is invoked at most once.
C1_FirstAnsweredBindingRequestStartsHandshake ==
    [][BindingRequestStep =>
        /\ IF state_ = "WAITING_STUN" /\ Called(last', "BindingResponse")
           THEN state_' = "DOING_DTLS_HANDSHAKE" /\ Called(last', "start_active_handshake")
           ELSE state_' = state_ /\ ~Called(last', "start_active_handshake")
        /\ nn'["start_active_handshake"] <= 1]_vars

\* C1 witness: a second answered binding request arrived after the handshake was started.
C1_Witness ==
    /\ last.op = "on_stun"
    /\ Called(last, "BindingResponse")
    /\ ~Called(last, "start_active_handshake")
    /\ state_ = "DOING_DTLS_HANDSHAKE"
    /\ nn["start_active_handshake"] = 1

\* C7: is_stun_timeout() is true exactly when now > last_stun_time + session_timeout,
\* last_stun_time being the time of initialize or of the most recent binding request
\* handled by on_stun; once true it stays true until a binding request is handled.
C7_StunTimeoutSinceLastBindingRequest ==
    /\ [](req # NULL => (is_stun_timeout <=> now > last_binding_at + session_timeout))
    /\ [][(req # NULL /\ is_stun_timeout /\ ~BindingRequestStep) => is_stun_timeout']_vars

\* C7 witness: a binding request was handled and then nothing for longer than the timeout.
C7_Witness ==
    /\ last_binding_peer # NULL
    /\ last.op = "tick"
    /\ now = last_binding_at + session_timeout + 1
    /\ is_stun_timeout

\* C8: with strict check on, a binding request with ICE-controlled set makes on_stun
\* fail: no response is written, the state stays, start_active_handshake is not invoked.
C8_RoleConflictRejected ==
    [][(BindingRequestStep /\ config.rtc_stun_strict_check /\ last'.arg.r.ice_controlled) =>
        /\ last'.err # srs_success
        /\ ~Called(last', "sendto")
        /\ ~Called(last', "BindingResponse")
        /\ ~Called(last', "start_active_handshake")
        /\ state_' = state_]_vars

\* C8 witness: a role conflict was rejected while the connection waited for STUN.
C8_Witness ==
    /\ last.op = "on_stun"
    /\ last.arg.r.binding_request
    /\ last.arg.r.ice_controlled
    /\ config.rtc_stun_strict_check
    /\ last.err = "ERROR_RTC_STUN"
    /\ state_ = "WAITING_STUN"

\* C9: after any sequence of binding requests the send-only socket and peer_id_ are
\* those of the most recent binding request and the id-to-session table holds exactly
\* one entry for the connection, keyed by that peer id; a binding request from the
\* unchanged address replaces neither the socket nor the index entry.
C9_IndexedByCurrentPeerOnly ==
    /\ [](last_binding_peer # NULL =>
            /\ sendonly_skt = last_binding_peer
            /\ peer_id_ = last_binding_peer
            /\ id_sessions = {last_binding_peer})
    /\ [][(BindingRequestStep /\ sendonly_skt = last'.arg.skt) =>
            /\ sendonly_skt' = sendonly_skt
            /\ id_sessions' = id_sessions
            /\ ~Called(last', "copy_sendonly")
            /\ ~Called(last', "insert_into_id_sessions")
            /\ ~Called(last', "remove_id_sessions")]_vars

\* C9 witness: the peer address changed and the old entry was removed.
C9_Witness ==
    /\ last.op = "on_stun"
    /\ Called(last, "remove_id_sessions")
    /\ id_sessions = {last.arg.skt}

----------------------------------------------------------------------------
(* Properties of the handshake and of inbound media, checked under SpecRtp. *)

\* C2 as stated, for a completion in which every collaborator succeeds: when
\* on_dtls_handshake_done is delivered on a connection in DOING_DTLS_HANDSHAKE, the
\* state becomes ESTABLISHED and start_publish or start_play is invoked.
C2_AsStated ==
    [][(/\ last'.op = "on_dtls_handshake_done"
        /\ ~handshake_done
        /\ last'.err = srs_success
        /\ state_ = "DOING_DTLS_HANDSHAKE") =>
            /\ state_' = "ESTABLISHED"
            /\ Called(last', IF is_publisher_ THEN "start_publish" ELSE "start_play")]_vars

\* Sample arguments of the SRTP operations of the transport.
SampleCiphers ==
    RtpDatagrams \cup RtcpDatagrams(RtcpPlains)
    \cup [srtp : {"rtcp"}, auth : BOOLEAN, plain : RtpPlains]

Refused(res, code) == res.err = code /\ res.output = <<>>

\* C4: while handshake_done is false, each of protect_rtp, protect_rtp2, protect_rtcp,
\* unprotect_rtp and unprotect_rtcp returns its SRTP error and produces no output.
C4_NoSrtpBeforeHandshakeDone ==
    ~handshake_done =>
        /\ \A p \in RtpPlains :
            /\ Refused(protect_rtp(p), "ERROR_RTC_SRTP_PROTECT")
            /\ Refused(protect_rtp2(p), "ERROR_RTC_SRTP_PROTECT")
        /\ \A p \in RtcpPlains :
            Refused(protect_rtcp(p), "ERROR_RTC_SRTP_PROTECT")
        /\ \A c \in SampleCiphers :
            /\ Refused(unprotect_rtp(c), "ERROR_RTC_SRTP_UNPROTECT")
            /\ Refused(unprotect_rtcp(c), "ERROR_RTC_SRTP_UNPROTECT")

\* C4 witness: an authentic datagram was refused because the handshake is not done.
C4_Witness ==
    /\ ~handshake_done
    /\ last.op = "on_rtp"
    /\ last.arg.auth
    /\ Called(last, "unprotect_rtp")
    /\ last.err = "ERROR_RTC_SRTP_UNPROTECT"

\* C5: when unprotect_rtp fails for an inbound RTP datagram, SrsRtcPublishStream::on_rtp
\* returns that error, no receive track's on_rtp is invoked, nothing is forwarded to
\* the shared stream, and the connection's state is unchanged.
C5_UnprotectFailureDropsDatagram ==
    [][(/\ last'.op = "on_rtp"
        /\ Called(last', "unprotect_rtp")
        /\ unprotect_rtp(last'.arg).err # srs_success) =>
            /\ last'.err = unprotect_rtp(last'.arg).err
            /\ ~Called(last', "track_on_rtp")
            /\ ~Called(last', "on_rtp_packet")
            /\ tracks_' = tracks_
            /\ source_' = source_
            /\ state_' = state_
            /\ handshake_done' = handshake_done]_vars

\* C5 witness: a datagram with a bad authentication tag was refused after the handshake,
\* its TWCC sequence number already taken from the clear header.
C5_Witness ==
    /\ handshake_done
    /\ srtp_.initialized
    /\ last.op = "on_rtp"
    /\ ~last.arg.auth
    /\ last.calls = <<"on_twcc", "unprotect_rtp">>
    /\ last.err = "ERROR_RTC_SRTP_UNPROTECT"

\* C6: however many times on_dtls_handshake_done is delivered, SRTP is initialized at
\* most once, on_connection_established is invoked at most once, and the publish report
\* timer and the play coroutine are started at most once.
C6_HandshakeDoneIdempotent ==
    /\ nn["srtp_initialize"] <= 1
    /\ nn["on_connection_established"] <= 1
    /\ nn["start_publish"] + nn["start_play"] <= 1
    /\ nn["report_timer_start"] <= 1
    /\ nn["trd_start"] <= 1

\* C6 witness: the completion was delivered again after the streams were started.
C6_Witness ==
    /\ last.op = "on_dtls_handshake_done"
    /\ last.calls = <<>>
    /\ nn["srtp_initialize"] = 1
    /\ nn["on_connection_established"] = 1
    /\ nn["report_timer_start"] + nn["trd_start"] = 1

----------------------------------------------------------------------------
(* Properties of the whole connection, checked under Spec.                 *)

\* C3: over any sequence of on_stun, on_dtls, handshake-done, on_rtp and on_rtcp events
\* the state of the connection stays where it is or advances by one step along
\* INIT -> WAITING_STUN -> DOING_DTLS_HANDSHAKE -> ESTABLISHED; it never returns to an
\* earlier state and never skips one.
C3_StateOnlyAdvances ==
    [][\/ state_' = state_
       \/ Rank(state_') = Rank(state_) + 1]_vars

\* C3 witness: the connection advanced to the handshake and kept its state while RTCP,
\* arriving after the handshake completed, was handled.
C3_Witness ==
    /\ state_ = "DOING_DTLS_HANDSHAKE"
    /\ handshake_done
    /\ last.op = "on_rtcp"
    /\ nn["start_active_handshake"] = 1

----------------------------------------------------------------------------
(* Properties of retransmission, checked under SpecNack.                   *)

\* The step handles a datagram that decrypts to a single RTP-FB fmt=1 NACK, on a player
\* that has NACK enabled.
NackStep ==
    /\ last'.op = "on_rtcp"
    /\ unprotect_rtcp(last'.arg).err = srs_success
    /\ ~player_.null
    /\ player_.nack_enabled_
    /\ Len(last'.arg.plain.pkts) = 1
    /\ last'.arg.plain.pkts[1].pt = RtcpType.kRtpFb
    /\ last'.arg.plain.pkts[1].fmt = 1

\* The sequence numbers a NACK with pid and blp asks for: pid, then pid + i + 1 for
\* every bit i of blp that is set, in ascending i, modulo 2^16.
LostSeqs(pid, blp) ==
    LET IsSet(i) == (blp \div (2 ^ i)) % 2 = 1
        bits == SelectSeq([k \in 1..16 |-> k - 1], IsSet)
    IN  <<pid>> \o [k \in 1..Len(bits) |-> (pid + bits[k] + 1) % (2 ^ 16)]

\* The retransmit ring of the send track that a media SSRC names.
RingOf(play, ssrc) ==
    UNION {play.audio_tracks_[k].ring :
              k \in {a \in DOMAIN play.audio_tracks_ : has_ssrc(play.audio_tracks_[a], ssrc)}}
    \cup UNION {play.video_tracks_[k].ring :
              k \in {v \in DOMAIN play.video_tracks_ : has_ssrc(play.video_tracks_[v], ssrc)}}

\* The packets of the ring with the sequence numbers seqs, in the order of seqs.
RECURSIVE StillInRing(_, _)
StillInRing(ring, seqs) ==
    IF seqs = <<>>
    THEN <<>>
    ELSE LET cached == {pkt \in ring : pkt.seq = Head(seqs)}
         IN  (IF cached = {} THEN <<>> ELSE <<CHOOSE pkt \in cached : TRUE>>)
             \o StillInRing(ring, Tail(seqs))

\* C10 as stated: on receipt of a NACK with pid=P and blp=B while NACK is enabled, the
\* sequence numbers looked up are P followed by P+i+1 (mod 2^16) for every bit i in
\* 0..15 set in B, in ascending i, and the packets handed to do_send_packets are
\* exactly those of that list still in the retransmit ring of the matching send track,
\* in that order.
C10_AsStated ==
    [][NackStep =>
        LET p == last'.arg.plain.pkts[1]
            seqs == LostSeqs(p.pid, p.blp)
        IN  /\ last'.out.lookups = seqs
            /\ last'.out.resend = StillInRing(RingOf(player_, p.ssrc), seqs)]_vars

----------------------------------------------------------------------------
(* Properties of the send path, checked under SpecNack and SpecSend.       *)

\* The step ran a handler that may send media: a round of the play loop or on_rtcp.
SendStep == last'.op \in {"send_packets", "on_rtcp"}

\* The calls among ms in the order the handler made them.
CallsAmong(l, ms) == LET Among(m) == m \in ms IN SelectSeq(l.calls, Among)

Consecutive(sns) == \A k \in 1..(Len(sns) - 1) : sns[k + 1] = (sns[k] + 1) % (2 ^ 16)

\* sub is what remains of sns when some of its elements are struck out.
RECURSIVE IsSubSeq(_, _)
IsSubSeq(sub, sns) ==
    IF sub = <<>> THEN TRUE
    ELSE IF sns = <<>> THEN FALSE
    ELSE IF Head(sub) = Head(sns) THEN IsSubSeq(Tail(sub), Tail(sns))
    ELSE IsSubSeq(sub, Tail(sns))

\* C12 as stated: on a connection with TWCC enabled the TWCC sequence numbers carried
\* by successive RTP packets written to the socket are consecutive modulo 2^16, with no
\* gap and no repeat.
C12_AsStated == (twcc_id_ # 0 /\ config.SRS_CXX14) => Consecutive(wire.rtp)

\* C12, amended: the TWCC sequence numbers allocated to successive packets passed
\* through do_send_packets are consecutive modulo 2^16, and the packets written to the
\* socket carry, in order and without repeat, those of them whose packet was written;
\* a gap on the wire is a stamped packet that was not written.
C12_AllocatedConsecutiveWrittenInOrder ==
    (twcc_id_ # 0 /\ config.SRS_CXX14) =>
        /\ Consecutive(wire.stamped)
        /\ IsSubSeq(wire.rtp, wire.stamped)
        /\ Len(wire.rtp) = Len(wire.stamped) => Consecutive(wire.rtp)

\* C12 witness: the numbers wrapped at 2^16 and one stamped packet was not written.
C12_Witness ==
    /\ twcc_id_ # 0
    /\ Len(wire.stamped) > Len(wire.rtp)
    /\ ~Consecutive(wire.rtp)
    /\ \E k \in 1..(Len(wire.rtp) - 1) : wire.rtp[k + 1] < wire.rtp[k]

\* C20 as stated: when encoding or SRTP protection fails for one packet of the vector
\* given to do_send_packets, only that packet is dropped: every other packet of the
\* vector, before and after it, is still written to the socket, and the session
\* continues.
C20_AsStated ==
    [][(/\ SendStep
        /\ Called(last', "do_send_packets")
        /\ nn_simulate_player_nack_drop = 0
        /\ last'.err \in {"encode packet", "ERROR_RTC_SRTP_PROTECT"}) =>
            /\ Len(last'.out.sent) = Len(last'.out.resend) - 1
            /\ IsSubSeq([k \in 1..Len(last'.out.sent) |-> last'.out.sent[k].plain.seq],
                        [k \in 1..Len(last'.out.resend) |-> last'.out.resend[k].seq])
            /\ state_' = state_
            /\ handshake_done' = handshake_done]_vars

----------------------------------------------------------------------------
(* Properties of TWCC on the publish side, checked under SpecRtp.          *)

\* C13 as stated: whenever a TWCC extension id is configured for the publish stream
\* (twcc_id_ # 0), every inbound RTP packet that carries the TWCC extension has its
\* TWCC sequence number recorded through recv_packet before SRTP unprotect is
\* attempted, whether or not a payload type to drop is configured and whether or not
\* the unprotect succeeds.
C13_AsStated ==
    [][(/\ last'.op = "on_rtp"
        /\ ~publisher_.null
        /\ publisher_.twcc_id_ # 0
        /\ publisher_.nn_simulate_nack_drop = 0
        /\ last'.arg.plain.decodable # "none"
        /\ last'.arg.plain.sn # -1) =>
            /\ Called(last', "on_twcc")
            /\ Head(CallsAmong(last', {"on_twcc", "unprotect_rtp"})) = "on_twcc"
            /\ last'.err # "twcc recv_packet" => last'.arg.plain.sn \in publisher_'.twcc_recv]_vars

----------------------------------------------------------------------------
(* Properties of the report timer of a publish stream, checked under       *)
(* SpecTwcc.                                                               *)

NotifyStep == last'.op = "notify"

\* The tick finds a recorded feedback time at least the gate interval old.
GateOpen ==
    /\ publisher_.last_twcc_feedback_time_ # 0
    /\ now - publisher_.last_twcc_feedback_time_ >= kTwccFeedbackInterval

\* Any two emitted feedback packets are at least the gate interval apart.
FeedbackSpaced(fb) ==
    \A i, j \in 1..Len(fb) : i < j => fb[j].at - fb[i].at >= kTwccFeedbackInterval

\* C14 as stated: between any two TWCC feedback packets emitted by a publish stream
\* at least 50 ms elapse, and a tick 50 ms or more after the previously recorded
\* feedback time emits a feedback packet.
C14_AsStated ==
    [][NotifyStep =>
         /\ FeedbackSpaced(wire'.feedback)
         /\ GateOpen => Len(wire'.feedback) = Len(wire.feedback) + 1]_vars

\* C14: between any two TWCC feedback packets emitted by a publish stream at least
\* 50 ms elapse; a tick less than 50 ms after the recorded feedback time emits
\* nothing and keeps the recorded time; a tick 50 ms or more after it records the
\* time of the tick and emits exactly one feedback packet unless building the packet
\* fails, in which case it emits none.
C14_GateSpacesFeedback ==
    [][NotifyStep =>
         /\ FeedbackSpaced(wire'.feedback)
         /\ GateOpen =>
               /\ publisher_'.last_twcc_feedback_time_ = now
               /\ Len(wire'.feedback) = Len(wire.feedback)
                     + (IF last'.out.twcc_err = srs_success THEN 1 ELSE 0)
         /\ ~GateOpen =>
               /\ wire'.feedback = wire.feedback
               /\ publisher_.last_twcc_feedback_time_ # 0 =>
                     publisher_'.last_twcc_feedback_time_
                         = publisher_.last_twcc_feedback_time_]_vars

\* Two packets are out, a tick of the same 50 ms emitted nothing, and an earlier
\* tick with the gate open failed to build its packet.
C14_Witness ==
    /\ last.op = "notify"
    /\ Len(wire.feedback) = 2
    /\ last.out.sent = <<>>
    /\ now = wire.feedback[2].at
    /\ wire.feedback[2].at - wire.feedback[1].at > kTwccFeedbackInterval

\* C15: the feedback count of a publish stream advances by one, modulo 2^8, for
\* every feedback packet built and only then; an emitted packet carries the count
\* before the step, so the counts of successive emitted packets increase strictly
\* and no two emitted packets within one wrap carry the same count.
C15_CountPerFeedbackBuilt ==
    [][NotifyStep =>
         LET fb == wire'.feedback
             built == Called(last', "set_feedback_count")
         IN  /\ publisher_'.twcc_fb_count_
                   = (publisher_.twcc_fb_count_ + (IF built THEN 1 ELSE 0)) % 256
             /\ \A k \in 1..Len(last'.out.sent) :
                   last'.out.sent[k].feedback_count = publisher_.twcc_fb_count_
             /\ \A k \in 1..(Len(fb) - 1) :
                   LET d == (fb[k + 1].count - fb[k].count) % 256
                   IN  d >= 1 /\ d <= nn'["notify"]
             /\ \A i, j \in 1..Len(fb) :
                   (i < j /\ j - i < 256) => fb[i].count # fb[j].count]_vars

\* Two packets are out; the count between theirs was taken by a packet that could
\* not be built.
C15_Witness ==
    /\ last.op = "notify"
    /\ last.out.sent # <<>>
    /\ Len(wire.feedback) = 2
    /\ wire.feedback[1].count = 0
    /\ wire.feedback[2].count = 2
    /\ publisher_.twcc_fb_count_ = 3

----------------------------------------------------------------------------
(* Properties of the RTCP receivers, checked under SpecRtcp.               *)

\* on_rtcp has unprotected a compound packet and handed it to the stream.
RtcpStep ==
    /\ last'.op = "on_rtcp"
    /\ unprotect_rtcp(last'.arg).err = srs_success
    /\ ~player_.null \/ ~publisher_.null

KnownTypes == {RtcpType[k] : k \in DOMAIN RtcpType}

IgnoredTypes == {RtcpType.kSDES, RtcpType.kBye, RtcpType.kApp}

\* The authentic datagram that carries the sub-packets pkts.
DatagramOf(pkts) == [srtp |-> "rtcp", auth |-> TRUE, plain |-> Compound(pkts)]

\* What a handler leaves behind in the streams, the statistic and the source.
Effects(r) == <<r.player_, r.publisher_, r.stat_, r.source_>>

NoRtpFb(pkts) == \A k \in 1..Len(pkts) : pkts[k].pt # RtcpType.kRtpFb

NotIgnored(p) == p.pt \notin IgnoredTypes

\* The number of sub-packets of type pt among the first n.
CountType(pkts, n, pt) == Cardinality({k \in 1..n : pkts[k].pt = pt})

\* The offset of sub-packet k: the sizes of the sub-packets before it.
OffsetOf(pkts, k) == Bytes(SubSeq(pkts, 1, k - 1))

\* C16: both RTCP receivers walk a compound packet in order and dispatch by payload
\* type.  SR, RR, RTP-FB, PS-FB and XR are handled; SDES, BYE and APP change nothing:
\* the compound packet leaves what it leaves without them.  The first sub-packet of
\* any other type makes on_rtcp return an error; no later sub-packet is visited, and
\* what the earlier sub-packets did is kept.
C16_DispatchByPayloadType ==
    [][RtcpStep =>
         LET pkts == last'.arg.plain.pkts
             visited == last'.out.visited
             n == Len(visited)
             unknown == {k \in 1..Len(pkts) : pkts[k].pt \notin KnownTypes}
             played == ~player_.null
             done == IF last'.err = srs_success THEN n ELSE n - 1
         IN  /\ n <= Len(pkts)
             /\ \A k \in 1..n : visited[k].pt = pkts[k].pt
             /\ NoRtpFb(pkts) =>
                   Effects(on_rtcp(DatagramOf(SelectSeq(pkts, NotIgnored)), NoSendFailure))
                       = <<player_', publisher_', stat_', source_'>>
             /\ (\A k \in 1..Len(pkts) : pkts[k].pt \in IgnoredTypes) =>
                   /\ last'.err = srs_success
                   /\ n = Len(pkts)
                   /\ <<player_', publisher_', stat_', source_'>>
                         = <<player_, publisher_, stat_, source_>>
             /\ played =>
                   /\ stat_'.nn_sr = stat_.nn_sr + CountType(pkts, done, RtcpType.kSR)
                   /\ stat_'.nn_rr = stat_.nn_rr + CountType(pkts, done, RtcpType.kRR)
                   /\ stat_'.nn_xr = stat_.nn_xr + CountType(pkts, done, RtcpType.kXR)
             /\ (~played /\ CountType(pkts, done, RtcpType.kSR) > 0) =>
                   publisher_'.send_report_time.video = Rtcp.sr.ntp
             /\ \A k \in 1..n :
                   (pkts[k].pt = RtcpType.kRtpFb /\ played /\ pkts[k].length >= 12
                        /\ pkts[k].fmt # 15)
                       => last'.out.lookups # <<>>
             /\ unknown # {} /\ n >= Min(unknown) =>
                   /\ last'.err = "ERROR_RTC_RTCP_CHECK"
                   /\ n = Min(unknown)
                   /\ LET before == on_rtcp(DatagramOf(SubSeq(pkts, 1, n - 1)), NoSendFailure)
                      IN  NoRtpFb(pkts) =>
                            /\ before.err = srs_success
                            /\ Effects(before) = <<player_', publisher_', stat_', source_'>>]_vars

\* A player has counted the sender report in front of a sub-packet of unknown type.
C16_Witness ==
    /\ last.op = "on_rtcp"
    /\ ~player_.null
    /\ last.err = "ERROR_RTC_RTCP_CHECK"
    /\ last.arg.plain = Compound(<<Rtcp.sr, RtcpOfType(208)>>)
    /\ Len(last.out.visited) = 2
    /\ stat_.nn_sr = 1

\* The sub-packet passes the checks its handler makes.
ValidFor(played, p) ==
    /\ p.pt \in KnownTypes
    /\ p.pt = RtcpType.kPsFb =>
          p.length >= 12 /\ p.fmt \in {PsFbType[k] : k \in DOMAIN PsFbType}
    /\ (played /\ p.pt = RtcpType.kRtpFb) => p.length >= 12
    /\ (~played /\ p.pt = RtcpType.kSR) => p.length = p.fmt * 24 + 28
    /\ (~played /\ p.pt = RtcpType.kRR) => p.length = p.fmt * 24 + 8

WellFormed(played, data) ==
    /\ Bytes(data.pkts) = data.nb_data
    /\ \A k \in 1..Len(data.pkts) : ValidFor(played, data.pkts[k])

\* The first n sub-packets were visited, once each, in order, each at its offset.
VisitedFirst(data, visited, n) ==
    /\ Len(visited) = n
    /\ \A k \in 1..n : visited[k] = [at |-> OffsetOf(data.pkts, k), pt |-> data.pkts[k].pt]

PlisAmong(pkts, n) ==
    {k \in 1..n : /\ pkts[k].pt = RtcpType.kPsFb
                  /\ pkts[k].fmt = PsFbType.kPLI
                  /\ pkts[k].length >= 12}

PublishSsrcsOf(play, ssrc) ==
    {S \in DOMAIN play.video_tracks_ : has_ssrc(play.video_tracks_[S], ssrc)}

\* C18: PLI relay.  When a play stream receives a PLI whose media SSRC belongs to a
\* video send track registered under publish SSRC S and the source has a registered
\* publisher, request_keyframe(S) is invoked on that publisher exactly once, the
\* publisher's video receive track for S records a key-frame request, and nn_pli is
\* incremented; without a publisher, or for an SSRC of no video track, nothing is
\* requested and nn_pli is incremented all the same.
C18_PliRelayedToPublisher ==
    [][(RtcpStep /\ ~player_.null) =>
         LET pkts == last'.arg.plain.pkts
             plis == PlisAmong(pkts, Len(last'.out.visited))
             relayed == {k \in plis : /\ source_.publish_stream # NULL
                                      /\ PublishSsrcsOf(player_, pkts[k].ssrc) # {}}
         IN  /\ stat_'.nn_pli = stat_.nn_pli + Cardinality(plis)
             /\ source_'.nn_pli = source_.nn_pli + Cardinality(relayed)
             /\ Count("request_keyframe", last'.calls) = Cardinality(relayed)
             /\ \A k \in relayed :
                   PublishSsrcsOf(player_, pkts[k].ssrc) \subseteq source_'.keyframes
             /\ relayed = {} => source_' = source_]_vars

\* A PLI for the retransmission SSRC of the video send track has reached the
\* publisher's receive track.
C18_Witness ==
    /\ last.op = "on_rtcp"
    /\ last.err = srs_success
    /\ last.arg.plain = Compound(<<[Rtcp.pli EXCEPT !.ssrc = Sdp.play_rtx_ssrc]>>)
    /\ source_.publish_stream = "remote"
    /\ Called(last, "request_keyframe")
    /\ Sdp.video_ssrc \in source_.keyframes
    /\ source_.nn_pli = 1
    /\ stat_.nn_pli = 1

\* C19 as stated: a PS-FB sub-packet whose fmt is not 1 (PLI) is ignored: for every
\* fmt in 0..31 other than 1, on_rtcp_ps_feedback returns success, requests no
\* key-frame and changes no state, and the rest of the compound packet is still
\* processed.
C19_AsStated ==
    [][RtcpStep =>
         LET pkts == last'.arg.plain.pkts
             n == Len(last'.out.visited)
             others == {k \in 1..n : /\ pkts[k].pt = RtcpType.kPsFb
                                     /\ pkts[k].fmt \in 0..31
                                     /\ pkts[k].fmt # PsFbType.kPLI
                                     /\ pkts[k].length >= 12}
         IN  /\ \A k \in others :
                   IF k = Len(pkts) THEN last'.err = srs_success ELSE n > k
             /\ (others # {} /\ Len(pkts) = 1) =>
                   /\ ~Called(last', "request_keyframe")
                   /\ <<player_', publisher_', stat_', source_'>>
                         = <<player_, publisher_, stat_, source_>>]_vars

----------------------------------------------------------------------------
(* Properties of a player with NACK disabled, checked under SpecNack.      *)

\* on_rtcp hands a player with NACK disabled a NACK (RTP-FB, fmt 1).
IgnoredNackStep ==
    /\ last'.op = "on_rtcp"
    /\ unprotect_rtcp(last'.arg).err = srs_success
    /\ ~player_.null
    /\ ~player_.nack_enabled_
    /\ Len(last'.arg.plain.pkts) = 1
    /\ last'.arg.plain.pkts[1].pt = RtcpType.kRtpFb
    /\ last'.arg.plain.pkts[1].fmt = 1
    /\ last'.arg.plain.pkts[1].length >= 12

\* C21: when NACK is disabled by config, a NACK returns success without invoking
\* do_send_packets: no packet is written to the socket, no TWCC sequence number is
\* allocated, and the nn_nack counter is unchanged.
C21_DisabledNackSendsNothing ==
    [][IgnoredNackStep =>
         /\ last'.err = srs_success
         /\ ~Called(last', "do_send_packets")
         /\ last'.out.sent = <<>>
         /\ last'.out.stamped = <<>>
         /\ wire' = wire
         /\ twcc_controller' = twcc_controller
         /\ stat_'.nn_nack = stat_.nn_nack
         /\ player_' = player_]_vars

\* A player with NACK disabled and TWCC enabled was asked for packets it still has.
C21_Witness ==
    /\ last.op = "on_rtcp"
    /\ last.err = srs_success
    /\ ~player_.null
    /\ ~player_.nack_enabled_
    /\ twcc_id_ # 0
    /\ last.arg.plain = Compound(<<Nack(Sdp.play_video_ssrc, 65534, 3)>>)
    /\ {pkt.seq : pkt \in RingOf(player_, Sdp.play_video_ssrc)} = {65534, 65535}
    /\ last.out.lookups = <<65534>>

----------------------------------------------------------------------------
(* Properties of track selection and stream switch, checked under          *)
(* SpecTrack.                                                              *)

SetActiveStep == last'.op = "set_play_track_active" /\ ~player_.null

\* The entries of cfgs that name the track: its type and its track id.
EntriesFor(cfgs, type, id) ==
    {i \in DOMAIN cfgs : cfgs[i].type_ = type /\ cfgs[i].label_ = id}

\* The active flag of the last entry of cfgs that names the track.
LastEntryActive(cfgs, type, id) ==
    LET named == EntriesFor(cfgs, type, id)
    IN  cfgs[CHOOSE i \in named : \A j \in named : j <= i].active

\* C22 as stated: after set_track_active(cfgs) an audio send track is active if and
\* only if some audio entry of cfgs carries its track id as label.
C22_AsStated ==
    [][SetActiveStep =>
          \A k \in DOMAIN player_'.audio_tracks_ :
              player_'.audio_tracks_[k].is_active
              <=> EntriesFor(last'.arg, "audio", player_'.audio_tracks_[k].track_id) # {}]_vars

\* C22: after set_track_active(cfgs) an audio send track is active if and only if
\* some audio entry of cfgs carries its track id as label and the last such entry
\* asks for an active track; an audio track that no entry names is inactive.
C22_AudioFollowsLastEntry ==
    [][SetActiveStep =>
          \A k \in DOMAIN player_'.audio_tracks_ :
              LET id == player_'.audio_tracks_[k].track_id
              IN  player_'.audio_tracks_[k].is_active
                  <=> /\ EntriesFor(last'.arg, "audio", id) # {}
                      /\ LastEntryActive(last'.arg, "audio", id)]_vars

C22_Witness ==
    /\ last.op = "set_play_track_active"
    /\ last.err = srs_success
    /\ last.arg = <<[type_ |-> "audio", label_ |-> "audio", active |-> TRUE],
                    [type_ |-> "audio", label_ |-> "audio", active |-> FALSE]>>
    /\ ~player_.audio_tracks_[Sdp.audio_ssrc].is_active
    /\ nn["set_track_active"] = 2

\* The live track of the merge group, which the switch context holds as immutable,
\* if it is active.
ActiveImmutable(play) ==
    {k \in DOMAIN play.video_tracks_ :
        play.switch_context_.active_ = k /\ play.video_tracks_[k].is_active}

ActiveOfGroup(play, group) ==
    {k \in DOMAIN play.video_tracks_ :
        /\ play.video_tracks_[k].is_active
        /\ get_merged_track_id(play.video_tracks_[k].track_id) = group}

\* C24: at every instant, whatever the interleaving of set_track_active calls and
\* of video packets that pass try_switch_stream, at most one video send track of each
\* merge group is active.
C24_OneActivePerMergeGroup ==
    \A group \in {"camera"} : Cardinality(ActiveOfGroup(player_, group)) <= 1

C24_Witness ==
    /\ last.op = "send_packets"
    /\ Len(last.arg) = 2
    /\ last.arg[1].is_keyframe
    /\ last.arg[1].ssrc = Sdp.small_ssrc
    /\ player_.switch_context_ = [prepare_ |-> 0, active_ |-> Sdp.small_ssrc]
    /\ ActiveOfGroup(player_, "camera") = {Sdp.small_ssrc}
    /\ player_.video_tracks_[Sdp.video_ssrc].ring # {}
    /\ Len(last.out.sent) = 1

\* The packets of a batch that are key-frames on the track that is preparing when
\* the round starts.
SwitchingAt(play, pkts) ==
    {i \in DOMAIN pkts : /\ ~pkts[i].is_audio /\ pkts[i].is_keyframe
                          /\ is_track_preparing(play.switch_context_, pkts[i].ssrc)}

\* The active flag of every send track.
ActiveFlags(play) ==
    [kind \in {"audio_tracks_", "video_tracks_"} |->
        [k \in DOMAIN play[kind] |-> play[kind][k].is_active]]

\* C25: for every video packet the play stream dispatches, try_switch_stream is
\* evaluated before the on_rtp of the track.  A key-frame on the preparing track
\* makes that track active and the track that was live inactive before the packet
\* is forwarded, so that the key-frame is handed to do_send_packets and written;
\* a round without such a key-frame, be it of other frames on the preparing track,
\* changes no active flag and leaves the switch context as it was.
C25_SwitchBeforeForward ==
    [][last'.op = "send_packets" =>
          LET pkts == last'.arg
              at == SwitchingAt(player_, pkts)
              seen == CallsAmong(last', {"try_switch_stream", "track_on_rtp"})
          IN  /\ (\A i \in DOMAIN pkts : ~pkts[i].is_audio)
                    => \A j \in DOMAIN seen :
                           seen[j] = "track_on_rtp"
                           => j > 1 /\ seen[j - 1] = "try_switch_stream"
              /\ IF at = {}
                 THEN /\ ActiveFlags(player_') = ActiveFlags(player_)
                      /\ player_'.switch_context_ = player_.switch_context_
                 ELSE LET i == Min(at)
                          key == pkts[i].ssrc
                          old == player_.switch_context_.active_
                          stamped == [pkts[i] EXCEPT
                                         !.ssrc = player_.video_tracks_[key].ssrc]
                      IN  /\ ~player_.video_tracks_[key].is_active
                          /\ player_'.video_tracks_[key].is_active
                          /\ old # 0 => ~player_'.video_tracks_[old].is_active
                          /\ player_'.switch_context_ = [prepare_ |-> 0, active_ |-> key]
                          /\ stamped \in Range(last'.out.resend)
                          /\ last'.err = srs_success
                                => \E j \in DOMAIN last'.out.sent :
                                       /\ last'.out.sent[j].plain.seq = stamped.seq
                                       /\ last'.out.sent[j].plain.ssrc = stamped.ssrc]_vars

C25_Witness ==
    /\ last.op = "send_packets"
    /\ last.arg = <<[ssrc |-> Sdp.small_ssrc, seq |-> 7, is_audio |-> FALSE,
                     nb_bytes |-> Sdp.nb_bytes, is_keyframe |-> TRUE]>>
    /\ player_.switch_context_ = [prepare_ |-> 0, active_ |-> Sdp.small_ssrc]
    /\ player_.video_tracks_[Sdp.small_ssrc].is_active
    /\ ~player_.video_tracks_[Sdp.video_ssrc].is_active
    /\ player_.video_tracks_[Sdp.video_ssrc].ring # {}
    /\ Len(last.out.sent) = 1
    /\ last.out.sent[1].plain.ssrc = Sdp.play_video_ssrc

----------------------------------------------------------------------------
(* Properties of the play loop, checked under SpecLoop.                    *)

\* The step is an iteration of the loop of SrsRtcPlayStream::cycle.
LoopStep == last'.op \in {"send_packets", "cycle"}

\* C26: the play loop polls the cancellation handle at the start of every
\* iteration and nowhere else; the iteration in which pull() reports the interrupt
\* leaves the loop without waiting on the consumer and without dispatching a packet,
\* and no iteration follows it; every iteration that dumps packets frees each of them
\* once, whatever send_packets returns, so that the packet vector of the loop is
\* empty after every iteration and when the loop exits.
C26_InterruptEndsLoopNothingLeaks ==
    [][/\ player_.trd.terminated => ~LoopStep
       /\ LoopStep =>
             /\ last'.calls[1] = "pull"
             /\ Count("pull", last'.calls) = 1
             /\ player_'.pkts = <<>>
             /\ player_.trd.interrupted
                   => /\ player_'.trd.terminated
                      /\ last'.calls = <<"pull">>
                      /\ last'.out.resend = <<>> /\ last'.out.sent = <<>>
                      /\ last'.out.freed = <<>>
                      /\ wire' = wire /\ stat_' = stat_
                      /\ player_' = [player_ EXCEPT !.trd.terminated = TRUE]
             /\ ~player_.trd.interrupted
                   => /\ ~player_'.trd.terminated
                      /\ last'.out.freed = last'.arg
                      /\ Count("srs_freep", last'.calls) = Len(last'.arg)]_vars

C26_Witness ==
    /\ last.op = "cycle"
    /\ last.err = "rtc sender thread"
    /\ player_.trd.terminated
    /\ player_.pkts = <<>>
    /\ stat_.nn_out_rtp = 2 * MaxSend
    /\ wire.rtp # <<>>

----------------------------------------------------------------------------
(* Properties of the receiver reports, checked under SpecRr.               *)

\* The receive track of a report block.
TrackOfRr(rr) == IF rr.ssrc = Sdp.video_ssrc THEN "video" ELSE "audio"

\* The loss counter of a receive track: the packets its sequence numbers span less
\* the packets it received.
LossCounter(q) ==
    IF q.nn_received = 0 THEN 0
    ELSE (q.extended_highest_sequence - q.first_seq + 1) - q.nn_received

\* C27 as stated: every receiver report emitted for a receive track carries in its
\* cumulative-lost field the loss counter of the track, (extended_highest_seq -
\* first_seq + 1) - received_count, truncated to 24 bits.
C27_AsStated ==
    [][NotifyStep =>
          \A k \in DOMAIN last'.out.rr :
              LET rr == last'.out.rr[k]
              IN  rr.cumulative_number_of_packets_lost
                  = LossCounter(publisher_.rtp_queue[TrackOfRr(rr)]) % (2 ^ 24)]_vars

----------------------------------------------------------------------------
(* Properties of the negotiation, checked under SpecSdp.                   *)

NegotiateStep == last'.op = "negotiate_publish_capability"

\* The fmtp is present and parses.
ValidFmtp(pt) == ~pt.format_specific_param_.empty /\ pt.format_specific_param_.parsable

\* The fmtp has packetization-mode=1 and level-asymmetry-allowed=1.
BestMatch(pt) ==
    /\ ValidFmtp(pt)
    /\ pt.format_specific_param_.packetization_mode = "1"
    /\ pt.format_specific_param_.level_asymmerty_allow = "1"

\* The first payload type of the offer among those of idx, which is not empty.
FirstOf(payloads, idx) == payloads[CHOOSE i \in idx : \A j \in idx : i <= j]

\* C28 as stated: among the H.264 payload types of a video section the negotiation
\* picks the first whose fmtp has packetization-mode=1 and
\* level-asymmetry-allowed=1; otherwise the first with a valid fmtp; otherwise some
\* remaining candidate; a candidate without fmtp is chosen only when no candidate
\* with a valid fmtp is offered.
C28_AsStated ==
    [][NegotiateStep /\ last'.arg.payloads # <<>> =>
          LET payloads == last'.arg.payloads
              media_ == last'.out.media_
              best == {i \in DOMAIN payloads : BestMatch(payloads[i])}
              valid == {i \in DOMAIN payloads : ValidFmtp(payloads[i])}
          IN  /\ media_ # <<>>
              /\ IF best # {}
                 THEN media_[1].payload_type_ = FirstOf(payloads, best).payload_type_
                 ELSE IF valid # {}
                 THEN media_[1].payload_type_ = FirstOf(payloads, valid).payload_type_
                 ELSE media_[1].payload_type_
                          \in {payloads[i].payload_type_ : i \in DOMAIN payloads}]_vars


----------------------------------------------------------------------------
(* Properties of the extended reports, checked under SpecXr.               *)

XrStep == last'.op = "on_rtcp" /\ last'.out.rtt # <<>>

\* A 16.16 fixed-point number of seconds in milliseconds: floor(d * 1000 / 65536).
MsOf(d) == (d \div 65536) * 1000 + ((d % 65536) * 1000) \div 65536

\* C30 as stated: the RTT passed to update_rtt for a DLRR sub-block is the 16.16
\* fixed-point difference d = compact_ntp(now) - lrr - dlrr in milliseconds,
\* floor(d * 1000 / 65536), for every non-negative d, below one second or not.
C30_AsStated ==
    [][XrStep =>
           \A i \in DOMAIN last'.out.rtt :
               last'.out.rtt[i].rtt_ntp >= 0 =>
                   last'.out.rtt[i].rtt = MsOf(last'.out.rtt[i].rtt_ntp)]_vars

----------------------------------------------------------------------------
(* Properties of the payload type to drop, checked under SpecRtp.          *)

\* A step in which a publish stream with a payload type to drop handled an RTP
\* packet of that payload type.
DropPtStep ==
    /\ last'.op = "on_rtp"
    /\ ~publisher_.null
    /\ publisher_.pt_to_drop_ # 0
    /\ last'.arg.plain.pt = publisher_.pt_to_drop_

\* C29 as stated: when a payload type to drop is configured, every inbound RTP packet
\* of that payload type is discarded before SRTP unprotect and never reaches a receive
\* track, whether or not a TWCC extension id is configured for the publish stream.
C29_AsStated ==
    [][DropPtStep =>
           /\ ~Called(last', "unprotect_rtp")
           /\ ~Called(last', "track_on_rtp")
           /\ tracks_' = tracks_]_vars

----------------------------------------------------------------------------
(* Properties of the walk over the report blocks, checked under SpecXr.    *)

\* The XR sub-packet of a datagram that holds nothing else.
XrOf(l) == l.arg.plain.pkts[1]

\* The byte offsets at which the report blocks of an XR sub-packet start, each block
\* taken with its own length, from offset pos on.
RECURSIVE BlockStarts(_, _)
BlockStarts(p, pos) ==
    IF pos + 4 > p.length
    THEN <<>>
    ELSE <<pos>> \o BlockStarts(p, pos + ((XrWord(p, pos) % 65536) + 1) * 4)

\* The SSRCs of the sub-blocks of the DLRR blocks among the blocks that start at the
\* offsets starts.
RECURSIVE DlrrSsrcs(_, _)
DlrrSsrcs(p, starts) ==
    IF starts = <<>>
    THEN <<>>
    ELSE LET pos == Head(starts)
             n == (XrWord(p, pos) % 65536) \div 3
         IN  (IF XrWord(p, pos) \div 16777216 = 5
              THEN [k \in 1..n |-> XrWord(p, pos + 4 + 12 * (k - 1))]
              ELSE <<>>) \o DlrrSsrcs(p, Tail(starts))

\* A datagram that is one XR sub-packet with report blocks, handed to on_rtcp_xr.
XrWalkStep ==
    /\ last'.op = "on_rtcp"
    /\ ~publisher_.null
    /\ last'.out.visited # <<>>
    /\ Len(last'.arg.plain.pkts) = 1
    /\ XrOf(last').pt = RtcpType.kXR
    /\ XrOf(last').words # <<>>

\* C31 as stated: on_rtcp_xr walks the report blocks by their own lengths: a block of
\* another type than 5 is skipped in full, its body is never read as a block header,
\* and update_rtt is called once per sub-block of every DLRR block and for nothing
\* else.
C31_AsStated ==
    [][XrWalkStep =>
           LET p == XrOf(last')
               starts == BlockStarts(p, 8)
           IN  /\ Range(last'.out.blocks) \subseteq Range(starts)
               /\ [i \in DOMAIN last'.out.rtt |-> last'.out.rtt[i].ssrc]
                      = DlrrSsrcs(p, starts)]_vars

----------------------------------------------------------------------------
(* Properties of the bounds of the RTCP walk, checked under SpecOverrun.   *)

\* C32 as stated: for every datagram, malformed ones included, on_rtcp reads no
\* sub-packet header where fewer than 4 bytes of the datagram remain and hands no
\* handler a sub-packet that extends past the end of the datagram.
C32_AsStated ==
    [][RtcpStep =>
           \A k \in DOMAIN last'.out.visited :
               LET at == last'.out.visited[k].at
               IN  /\ at + 4 <= last'.arg.plain.nb_data
                   /\ at + PacketAt(last'.arg.plain, at).length
                          <= last'.arg.plain.nb_data]_vars

----------------------------------------------------------------------------
(* Properties of the end of a publish stream, checked under SpecDestroy.   *)

\* The connection is destroyed while its publish stream is not the one registered
\* with the source: it never started, or its start failed before it registered.
DestroyUnregisteredStep ==
    /\ last'.op = "~SrsRtcConnection"
    /\ ~publisher_.null
    /\ source_.publish_stream # "publisher_"

\* C33 as stated: destroying a publish stream whose start failed neither clears the
\* current-publisher slot of the stream, which the other, live publisher may have
\* registered, nor calls on_unpublish on the stream.
C33_AsStated ==
    [][DestroyUnregisteredStep =>
           /\ source_'.publish_stream = source_.publish_stream
           /\ ~Called(last', "on_unpublish")]_vars

----------------------------------------------------------------------------
(* Properties of the handshake flag, checked under SpecRtp.                *)

\* C34 as stated: handshake_done is true only if SRTP has been initialized
\* successfully, so that after a failed srtp_initialize a later handshake-done
\* notification initializes SRTP and establishes the connection.
C34_AsStated == handshake_done => srtp_.initialized

----------------------------------------------------------------------------
(* Properties of a failing binding request, checked under SpecStun.        *)

\* C35 as stated: the connection enters DOING_DTLS_HANDSHAKE only by a binding
\* request whose response was sent and whose start_active_handshake succeeded; a
\* failure to send leaves WAITING_STUN, and a failure of start_active_handshake does
\* not leave the connection in DOING_DTLS_HANDSHAKE.
C35_AsStated ==
    [][(BindingRequestStep /\ state_ = "WAITING_STUN") =>
           /\ state_' = "DOING_DTLS_HANDSHAKE" =>
                  (Called(last', "BindingResponse") /\ last'.err = srs_success)
           /\ last'.err = "stun binding response send failed" => state_' = "WAITING_STUN"
           /\ last'.err = "fail to dtls handshake" => state_' # "DOING_DTLS_HANDSHAKE"]_vars

\* A step in which on_stun rejected a binding request: role conflict under the strict
\* check, or a failure to encode or to send the binding response.
RejectedRequestStep ==
    /\ BindingRequestStep
    /\ last'.err \in {"ERROR_RTC_STUN", "stun binding response encode failed",
                      "stun binding response send failed"}

\* C36 as stated: a binding request that on_stun rejects leaves last_stun_time, the
\* send-only socket, peer_id_ and the id-to-session index as they were before it.
C36_AsStated ==
    [][RejectedRequestStep =>
           /\ last_stun_time' = last_stun_time
           /\ sendonly_skt' = sendonly_skt
           /\ peer_id_' = peer_id_
           /\ id_sessions' = id_sessions]_vars

----------------------------------------------------------------------------
(* Properties of the feedback of a stream without TWCC, under SpecTwcc.    *)

\* The report timer fires on a publish stream for which no TWCC extension was
\* negotiated.
NotifyWithoutTwccStep == NotifyStep /\ publisher_.twcc_id_ = 0

\* C37 as stated: a publish stream with twcc_id_ = 0 never emits a TWCC feedback
\* packet and never advances its feedback count, on any periodic tick.
C37_AsStated ==
    [][NotifyWithoutTwccStep =>
           /\ last'.out.sent = <<>>
           /\ wire'.feedback = wire.feedback
           /\ publisher_'.twcc_fb_count_ = publisher_.twcc_fb_count_]_vars

----------------------------------------------------------------------------
(* Properties of the RTCP the connection sends, checked under SpecFeedback.*)

\* A step in which the connection built RTCP packets to send.
RtcpSendStep ==
    /\ last'.op \in {"send_rtcp_rr", "send_rtcp_xr_rrtr", "send_rtcp_fb_pli",
                     "check_send_nacks", "notify"}
    /\ last'.out.built # <<>>

\* C38 as stated: every RTCP packet written to the socket is the SRTCP-protected
\* form of the packet just built, and nothing is written when protection fails.
C38_AsStated ==
    [][RtcpSendStep =>
           LET built == last'.out.built
           IN  IF protect_rtcp(built[1]).err = srs_success
               THEN last'.out.wrote
                        = [k \in 1..Len(built) |-> protect_rtcp(built[k]).output[1]]
               ELSE last'.out.wrote = <<>>]_vars

\* The sequence numbers a NACK asks for: pid, and pid + i + 1 modulo 2^16 for every
\* bit i of blp that is set.
DecodeNack(p) ==
    <<p.pid>> \o [k \in 1..Cardinality({i \in 0..15 : (p.blp \div (2 ^ i)) % 2 = 1}) |->
                    LET set == {i \in 0..15 : (p.blp \div (2 ^ i)) % 2 = 1}
                        i == CHOOSE i \in set : Cardinality({j \in set : j < i}) = k - 1
                    IN  (p.pid + i + 1) % 65536]

RECURSIVE DecodeNacks(_, _)
DecodeNacks(built, k) ==
    IF k > Len(built) THEN <<>> ELSE DecodeNack(built[k]) \o DecodeNacks(built, k + 1)

CheckSendNacksStep == last'.op = "check_send_nacks"

\* C39 as stated: for every list of lost sequence numbers in ascending order, across
\* the 16-bit wrap too, every shift amount used to build a blp is in 0..15, every blp
\* is a 16-bit mask, and the NACK packets built decode to exactly the input list, each
\* sequence number once.
C39_AsStated ==
    [][CheckSendNacksStep =>
           LET built == last'.out.built
               asked == DecodeNacks(built, 1)
           IN  /\ \A k \in DOMAIN last'.out.shifts : last'.out.shifts[k] \in 0..15
               /\ \A k \in DOMAIN built : built[k].blp \in 0..65535
               /\ Len(asked) = Len(last'.arg.nack_seqs)
               /\ Range(asked) = Range(last'.arg.nack_seqs)]_vars

----------------------------------------------------------------------------
(* Properties of the dispatch of media to the send tracks, checked under   *)
(* SpecDispatch.                                                           *)

\* The packets of a batch whose SSRC is a key of one of the two track maps.
KnownPackets(play, pkts) ==
    {i \in DOMAIN pkts : \/ pkts[i].ssrc \in DOMAIN play.audio_tracks_
                         \/ pkts[i].ssrc \in DOMAIN play.video_tracks_}

DispatchStep == last'.op = "send_packets"

\* C40 as stated: send_packets hands a packet only to a send track that exists under
\* the packet's SSRC, skips every packet whose SSRC is in neither map, and leaves the
\* key sets of both maps unchanged, whatever the kind of the packet and the map in
\* which its SSRC is registered.
C40_AsStated ==
    [][DispatchStep =>
           /\ ~Called(last', "null_track_on_rtp")
           /\ Count("track_on_rtp", last'.calls)
                  <= Cardinality(KnownPackets(player_, last'.arg))
           /\ DOMAIN player_'.audio_tracks_ = DOMAIN player_.audio_tracks_
           /\ DOMAIN player_'.video_tracks_ = DOMAIN player_.video_tracks_]_vars

====
